---- MODULE Spec2Model ----
(***************************************************************************)
(* The indexing orchestrator of the local RAG agent                        *)
(* (src/services/local_rag_agent/indexer.py, class Indexer) together with  *)
(* the parts of IndexStorage and of the vector store it drives.            *)
(*                                                                         *)
(* Granularity.  The Indexer runs on one asyncio event loop.  Code between *)
(* two awaits that really suspend runs atomically, so the callers of       *)
(* pause(), resume(), cancel_folder(), status() and of a second refresh()  *)
(* act only while the run is suspended: awaiting the scan thread, an       *)
(* enrichment service, the embedding service, or the pause event.  The run *)
(* itself is cut into one step per assignment of self.progress, so that    *)
(* every value progress.status takes is a state of the model.              *)
(***************************************************************************)
EXTENDS Integers, Sequences, FiniteSets, TLC

\* ------------------------------------------------------------------ bounds
MaxRuns == 2          \* refresh() calls that are not rejected
MaxEvents == 2        \* disturbances in one behaviour: accepted pauses, cancels,
                      \* failures of a collaborator, filesystem edits

\* ---------------------------------------------------------------- universe
Folders == {"f1", "f2", "f3"}
FolderIds == Folders \cup {"fx"}         \* "fx": an id no folder is registered under
FolderOrder == <<"f1", "f2", "f3">>            \* list_folders(): ORDER BY created_at
Files == {"a", "b", "c", "d"}
FolderOf(p) == IF p \in {"a", "b"} THEN "f1" ELSE IF p = "c" THEN "f2" ELSE "f3"
WalkOrder(f) == IF f = "f1" THEN <<"a", "b">> ELSE IF f = "f2" THEN <<"c">> ELSE <<"d">>

\* ----------------------------------------------------------------- helpers
Range(s) == {s[i] : i \in 1..Len(s)}

\* a variant that keeps the repetitions
DedupeKeepsAll(s) == s

\* a variant that keeps the last occurrence of a repeated element
RECURSIVE DedupeKeepsLast(_)
DedupeKeepsLast(s) ==
    IF s = <<>> THEN <<>>
    ELSE LET r == DedupeKeepsLast(Tail(s))
         IN IF Head(s) \in Range(r) THEN r ELSE <<Head(s)>> \o r

\* list(dict.fromkeys(...)): first occurrences, in order
RECURSIVE Dedupe(_)
Dedupe(s) ==
    IF s = <<>> THEN <<>>
    ELSE LET r == Dedupe(SubSeq(s, 1, Len(s) - 1))
             x == s[Len(s)]
         IN IF x \in Range(r) THEN r ELSE Append(r, x)

Keep(s, S) == SelectSeq(s, LAMBDA x : x \in S)

VARIABLES
    \* ---- Indexer fields
    locked,               \* self._lock.locked()
    progress,             \* self.progress
    pending_paths,        \* self._pending_paths
    active_folder,        \* self._active_folder ("none" or a folder id)
    active_path,          \* self._active_path ("none" or a file)
    current_run_started,  \* self._current_run_started is not None
    current_run_total,    \* self._current_run_total
    current_processed,    \* self._current_processed
    pause_event,          \* self._pause_event.is_set()
    is_paused,            \* self._is_paused
    cancelled_folders,    \* self._cancelled_folders
    \* ---- the run's frame (locals of refresh / _process_folder / _store_artifact)
    pc, args, batches, bi, process_list, fi, mem, art,
    \* ---- collaborators
    disk,                 \* the filesystem
    files,                \* IndexStorage: table files (with its chunk rows)
    folders,              \* IndexStorage: table folders
    vstore,               \* the vector store: files that have vector entries
    \* ---- budgets
    runs, events,
    \* ---- observation (history) variables
    lastOp, ret, activeRuns, started, early, mismatched, vraised, enc, ups, resumed,
    crashed,              \* the file whose pipeline a process crash cut, and in which run
    \* ---- the pure functions, applied to an input on their own
    cand,                 \* _paths_to_refresh: what it finds about one candidate path
    verdict,              \* _paths_to_refresh: "unset", "selected" or "skipped"
    req,                  \* _resolve_targets: the folders and files a refresh names
    ftable,               \* _resolve_targets: the table folders it reads
    resolved,             \* _resolve_targets: what it returned
    text,                 \* build: the text, as sections of blocks of sentences
    config,               \* build: chunk_tokens and overlap_tokens
    payloads,             \* build: what it returned
    doc,                  \* build on a fenced code block: the text
    fenced,               \* build on a fenced code block: what it returned
    active_recent_events, \* self._active_recent_events
    active_stage,         \* self._active_stage ("none" or a stage)
    in_file,              \* _process_single_file is between its first line and its finally
    serial,               \* how many files _process_single_file has begun
    emitted,              \* how many events the file in flight has emitted
    metric_type,          \* search: the metric of the collection
    raw_score,            \* search: the score of the point the client returned, in thousandths
    hit,                  \* search: the SearchHit it built
    removal,              \* DELETE /folders/{id}: the folder and how far the request is
    held,                 \* the progress objects handed to readers: as returned, and as they are now
    pdf_input,            \* _build_artifact_chunks: the pages of a PDF and what decides the branch
    pdf_chunks,           \* _build_artifact_chunks: the pages each chunk it built draws on
    job,                  \* _enrich_artifact: the file, the mode and what the outside calls will answer
    enr,                  \* _enrich_artifact and the stages after it: how far the file is, and what it holds
    para,                 \* _split_at_sentences: the text of the block, a character at a time
    limits,               \* _split_at_sentences: max_chars and min_chars
    pieces,               \* _split_at_sentences: what it returned
    paged                 \* build called with a page mapping: the mapping and the payloads

indexerVars == <<locked, progress, pending_paths, active_folder, active_path,
                 current_run_started, current_run_total, current_processed,
                 pause_event, is_paused, cancelled_folders>>
frameVars == <<pc, args, batches, bi, process_list, fi, mem, art>>
worldVars == <<disk, files, folders, vstore>>
budgetVars == <<runs, events>>
obsVars == <<lastOp, ret, activeRuns, started, early, mismatched, vraised, enc, ups, resumed>>
runVars == <<indexerVars, frameVars, worldVars, budgetVars, obsVars, crashed>>
detectVars == <<cand, verdict>>
resolveVars == <<req, ftable, resolved>>
chunkVars == <<text, config, payloads>>
fenceVars == <<doc, fenced>>
stageVars == <<active_recent_events, active_stage, in_file, serial, emitted>>
searchVars == <<metric_type, raw_score, hit>>
removeVars == <<removal>>
snapVars == <<held>>
pdfVars == <<pdf_input, pdf_chunks>>
enrichVars == <<job, enr>>
sentVars == <<para, limits, pieces>>
pageVars == <<paged>>
pureVars == <<detectVars, resolveVars, chunkVars, fenceVars, stageVars, searchVars, removeVars,
             snapVars, pdfVars, enrichVars, sentVars, pageVars>>
vars == <<runVars, pureVars>>

\* ------------------------------------------------------------------ values
NoFile == [present |-> FALSE, status |-> "none", sum |-> 0, mtime |-> 0,
           emb |-> FALSE, vchunks |-> FALSE, chunks |-> FALSE, strategy |-> "none",
           csum |-> 0]    \* the content (checksum) the stored chunk rows were cut from

IndexProgress(st, processed, failed, failed_items, total, message, last_error) ==
    [status |-> st, processed |-> processed, failed |-> failed,
     failed_items |-> failed_items, total |-> total, message |-> message,
     last_error |-> last_error]

NoRet == IndexProgress("none", 0, 0, <<>>, 0, "none", "none")
\* what _store_artifact holds of the artifact and of the stored record `existing`
NoArt == [sum |-> 0, mtime |-> 0, strategy |-> "none",
          prev |-> FALSE,     \* bool(previous_chunk_ids)
          emb |-> FALSE,      \* existing.embedding_vector is not None
          same |-> FALSE]     \* existing has the artifact's checksum and strategy tag
NoCrash == [path |-> "none", run |-> 0]
NoArgs == [folders |-> <<>>, files |-> <<>>, refresh_embeddings |-> FALSE, mode |-> "fast"]

NoMem == [f \in Folders |-> [failed_files |-> <<>>, last_indexed |-> 0]]

reuse_embeddings == TRUE     \* settings.reuse_embeddings

RefreshArgs ==
       [folders : {<<>>}, files : {<<>>}, refresh_embeddings : BOOLEAN, mode : {"fast", "fine"}]
  \cup [folders : {<<"f1">>, <<"fx">>}, files : {<<>>}, refresh_embeddings : {FALSE}, mode : {"fast"}]
  \cup [folders : {<<>>}, files : {<<"a">>, <<"b", "a", "b">>}, refresh_embeddings : {FALSE}, mode : {"fast"}]

\* ------------------------------------------------- target resolution (pure)
\* a selection that leaves manual folders out whoever asks
SelectFoldersNeverManual(fs, folder_ids, include_manual) ==
    LET enabled == Keep(FolderOrder, {f \in Folders : fs[f].present /\ fs[f].enabled})
        automatic == Keep(enabled, {f \in Folders : fs[f].scan_mode # "manual"})
    IN IF folder_ids # <<>> THEN Keep(automatic, Range(folder_ids)) ELSE automatic

\* IndexStorage.list_folders / Indexer._select_folders
SelectFolders(fs, folder_ids, include_manual) ==
    LET enabled == Keep(FolderOrder, {f \in Folders : fs[f].present /\ fs[f].enabled})
    IN IF folder_ids # <<>>
       THEN Keep(enabled, Range(folder_ids))
       ELSE IF ~include_manual
            THEN Keep(enabled, {f \in Folders : fs[f].scan_mode # "manual"})
            ELSE enabled

\* The folder a path resolves to: folder_by_path(path.parent), else the first
\* registered folder the path lies under; "none" if there is none.
OwningFolder(fs, p) ==
    IF fs[FolderOf(p)].present THEN FolderOf(p) ELSE "none"

\* Indexer._resolve_targets: <<targets, target_files_by_folder>>
TargetFilesByFolder(fs, file_list) ==
    [f \in Folders |-> Keep(file_list, {p \in Files : OwningFolder(fs, p) = f})]

ResolveTargets(fs, folder_ids, file_list) ==
    LET is_explicit_request == file_list # <<>> \/ folder_ids # <<>>
        tfbf == TargetFilesByFolder(fs, file_list)
        keys == Dedupe([i \in 1..Len(Keep(file_list, {p \in Files : OwningFolder(fs, p) # "none"}))
                          |-> OwningFolder(fs, Keep(file_list, {p \in Files : OwningFolder(fs, p) # "none"})[i])])
        ids == IF keys # <<>> THEN keys ELSE folder_ids
    IN [targets |-> SelectFolders(fs, ids, is_explicit_request), by_folder |-> tfbf]

\* Indexer._iter_files: the files found under the folder root, in walk order
IterFiles(d, f) == Keep(WalkOrder(f), {p \in Files : d[p].exists})

\* Indexer._register_pending_files + IndexStorage.register_pending_files_batch
RegisterPending(d, fl, paths) ==
    [p \in Files |->
        IF p \in Range(paths) /\ ~fl[p].present /\ d[p].exists
        THEN [NoFile EXCEPT !.present = TRUE, !.status = "pending", !.mtime = d[p].mtime]
        ELSE fl[p]]

MaxTick == 3          \* modification times, in half seconds: 0 .. MaxTick
MaxSize == 2          \* file sizes: 1 .. MaxSize

Abs(x) == IF x < 0 THEN 0 - x ELSE x

\* what _paths_to_refresh can find about a candidate path
Candidates ==
    [failed : BOOLEAN,            \* path in failed_paths
     existing : BOOLEAN,          \* storage.get_file found a record
     stat_ok : BOOLEAN,           \* path.stat() did not raise OSError
     modified : 0..MaxTick,       \* stat.st_mtime, in half seconds
     stored_modified : 0..MaxTick,
     size : 1..MaxSize,           \* stat.st_size
     stored_size : 1..MaxSize,
     checksum : BOOLEAN,          \* bool(existing.checksum_sha256)
     force : BOOLEAN]             \* refresh_embeddings

NoCandidate ==
    [failed |-> FALSE, existing |-> FALSE, stat_ok |-> FALSE, modified |-> 0,
     stored_modified |-> 0, size |-> 1, stored_size |-> 1, checksum |-> FALSE,
     force |-> FALSE]

\* change detection that trusts the stored record of a path it cannot stat
ChangeDetectedIgnoresStat(c) ==
    IF c.failed THEN TRUE
    ELSE IF ~c.existing THEN TRUE
    ELSE IF c.stat_ok /\ Abs(c.modified - c.stored_modified) >= 2 THEN TRUE
    ELSE IF c.stat_ok /\ c.stored_size # c.size THEN TRUE
    ELSE ~c.checksum

\* Indexer._paths_to_refresh, lines 551-584: the body of the loop
ChangeDetected(c) ==
    IF c.failed THEN TRUE
    ELSE IF ~c.existing THEN TRUE
    ELSE IF ~c.stat_ok THEN TRUE
    ELSE IF Abs(c.modified - c.stored_modified) >= 2 THEN TRUE    \* >= 1 second
    ELSE IF c.stored_size # c.size THEN TRUE
    ELSE ~c.checksum

\* Indexer._paths_to_refresh, lines 548-586, for one candidate
SelectsPath(c) == IF c.force THEN TRUE ELSE ChangeDetected(c)

\* Indexer._paths_to_refresh: change detection for one candidate path of the
\* run; the files of the run change by whole seconds and keep their size
NeedsRefresh(d, fl, failed_files, p) ==
    ChangeDetected([failed |-> p \in Range(failed_files),
                    existing |-> fl[p].present,
                    stat_ok |-> d[p].exists,
                    modified |-> 2 * d[p].mtime,
                    stored_modified |-> 2 * fl[p].mtime,
                    size |-> 1,
                    stored_size |-> 1,
                    checksum |-> fl[p].sum # 0,
                    force |-> FALSE])

PathsToRefresh(d, fl, failed_files, paths, refresh_embeddings) ==
    IF refresh_embeddings THEN paths
    ELSE Keep(paths, {p \in Files : NeedsRefresh(d, fl, failed_files, p)})

\* Indexer._prepare_batches: one batch per target folder
Batch(d, fl, fs, by_folder, force, f) ==
    LET specific_files == by_folder[f]
    IN IF specific_files # <<>>
       THEN LET to_process == Keep(specific_files, {p \in Files : d[p].exists})
            IN [folder |-> f, paths |-> to_process, to_process |-> to_process,
                reembed |-> TRUE, specific |-> TRUE]
       ELSE LET folder_paths == IterFiles(d, f)
                fl2 == RegisterPending(d, fl, folder_paths)
            IN [folder |-> f, paths |-> folder_paths,
                to_process |-> PathsToRefresh(d, fl2, fs[f].failed_files, folder_paths, force),
                reembed |-> force, specific |-> FALSE]

PrepareBatches(d, fl, fs, targets, by_folder, force) ==
    [i \in 1..Len(targets) |-> Batch(d, fl, fs, by_folder, force, targets[i])]

\* the files table after _prepare_batches registered the discovered files
RegisterAll(d, fl, targets, by_folder) ==
    [p \in Files |->
        IF /\ FolderOf(p) \in Range(targets)
           /\ by_folder[FolderOf(p)] = <<>>
        THEN RegisterPending(d, fl, IterFiles(d, FolderOf(p)))[p]
        ELSE fl[p]]

RECURSIVE SumLen(_, _)
SumLen(bs, i) == IF i > Len(bs) THEN 0 ELSE Len(bs[i].to_process) + SumLen(bs, i + 1)

\* a variant that rebuilds the progress without resetting its status
SetRunningProgressKeepsStatus(p, processed, message) ==
    IF ~current_run_started THEN p
    ELSE IndexProgress(p.status, processed, p.failed, p.failed_items, current_run_total,
                       IF message # "keep" THEN message ELSE p.message, "none")

\* a variant that rebuilds the progress with a fresh failure counter
SetRunningProgressFreshFailed(p, processed, message) ==
    IF ~current_run_started THEN p
    ELSE IndexProgress("running", processed, 0, p.failed_items, current_run_total,
                       IF message # "keep" THEN message ELSE p.message, "none")

\* Indexer._set_running_progress, on the given progress object and counter
SetRunningProgress(p, processed, message) ==
    IF ~current_run_started THEN p
    ELSE IndexProgress("running", processed, p.failed, p.failed_items, current_run_total,
                       IF message # "keep" THEN message ELSE p.message, "none")

\* ------------------------------------------------------------------- Init
IndexerInit ==
    /\ locked = FALSE
    /\ progress = IndexProgress("idle", 0, 0, <<>>, 0, "none", "none")
    /\ pending_paths = [f \in Folders |-> <<>>]
    /\ active_folder = "none"
    /\ active_path = "none"
    /\ current_run_started = FALSE
    /\ current_run_total = 0
    /\ current_processed = 0
    /\ pause_event = TRUE
    /\ is_paused = FALSE
    /\ cancelled_folders = {}
    /\ pc = "idle"
    /\ args = NoArgs
    /\ batches = <<>>
    /\ bi = 0
    /\ process_list = <<>>
    /\ fi = 0
    /\ mem = NoMem
    /\ art = NoArt
    /\ disk = [p \in Files |-> [exists |-> TRUE, mtime |-> 1, sum |-> 1]]
    /\ files = [p \in Files |-> NoFile]
    /\ folders = [f \in Folders |-> [present |-> TRUE, enabled |-> TRUE, scan_mode |-> "full",
                                     failed_files |-> <<>>, last_indexed |-> 0]]
    /\ vstore = {}
    /\ runs = 0
    /\ events = 0
    /\ lastOp = "none"
    /\ ret = NoRet
    /\ activeRuns = 0
    /\ started = <<>>
    /\ early = {}
    /\ mismatched = {}
    /\ vraised = {}
    /\ enc = 0
    /\ ups = 0
    /\ resumed = FALSE
    /\ crashed = NoCrash

NoReq == [folders |-> <<>>, files |-> <<>>]
NoResolved ==
    [done |-> FALSE, targets |-> <<>>, by_folder |-> [f \in Folders |-> <<>>],
     gone |-> {}, batches |-> <<>>]     \* _prepare_batches: the files deleted, the result

DetectIdle == cand = NoCandidate /\ verdict = "unset"
ResolveIdle == req = NoReq /\ ftable = [f \in Folders |-> "full"] /\ resolved = NoResolved

NoPayloads ==
    [done |-> FALSE, chunks |-> <<>>,                       \* the first call of build
     again |-> [done |-> FALSE, chunks |-> <<>>],           \* a second call
     pdf |-> [done |-> FALSE, snapshots |-> <<>>]]          \* per-page chunking
ChunkIdle ==
    /\ text = <<>>
    /\ config = [chunk_tokens |-> 0, overlap_tokens |-> 0]
    /\ payloads = NoPayloads

NoFenced == [done |-> FALSE, chunks |-> <<>>]
FenceIdle == doc = [lead |-> FALSE, runs |-> <<>>] /\ fenced = NoFenced

StageIdle ==
    /\ active_recent_events = <<>>
    /\ active_stage = "none"
    /\ in_file = FALSE
    /\ serial = 0
    /\ emitted = 0

NoHit == [done |-> FALSE, score |-> 0]
SearchIdle == metric_type = "COSINE" /\ raw_score = 0 /\ hit = NoHit

NoRemoval == [folder |-> "none", phase |-> "none", run |-> 0]
RemoveIdle == removal = NoRemoval

SnapIdle == held = <<>>

NoPdfInput == [page_texts |-> <<>>, descriptions |-> FALSE, page_mapping |-> FALSE,
               one_chunk_per_page |-> FALSE, mode |-> "fast",
               cfg |-> [chunk_tokens |-> 0, overlap_tokens |-> 0]]
NoPdfChunks == [done |-> FALSE, chunks |-> <<>>]
PdfIdle == pdf_input = NoPdfInput /\ pdf_chunks = NoPdfChunks

NoJob == [kind |-> "text", mode |-> "fast", vision |-> <<>>, raw |-> FALSE, chars |-> 0,
          llm |-> "text", later |-> "ok"]
NoSummary == [from |-> "none", chars |-> 0]
NotBegun == [pc |-> "idle", calls |-> <<>>, page_results |-> <<>>, descriptions |-> FALSE,
             text_payload |-> "none", asked |-> FALSE, summary |-> NoSummary,
             status |-> "none"]
EnrichIdle == job = NoJob /\ enr = NotBegun

NoPieces == [done |-> FALSE, chunks |-> <<>>]
SentIdle == para = <<>> /\ limits = [max_chars |-> 0, min_chars |-> 0] /\ pieces = NoPieces

NoPaged == [done |-> FALSE, page_mapping |-> <<>>, chunks |-> <<>>]
PageIdle == paged = NoPaged

Init ==
    /\ IndexerInit
    /\ DetectIdle
    /\ ResolveIdle
    /\ ChunkIdle
    /\ FenceIdle
    /\ StageIdle
    /\ SearchIdle
    /\ RemoveIdle
    /\ SnapIdle
    /\ PdfIdle
    /\ EnrichIdle
    /\ SentIdle
    /\ PageIdle

\* ------------------------------------------------------- storage operations
\* a variant of upsert_folder that leaves the failed_files column out
UpsertFolderDropsFailed(fs, f, m) ==
    [fs EXCEPT ![f] = [@ EXCEPT !.present = TRUE, !.last_indexed = m.last_indexed]]

\* IndexStorage.upsert_folder with the run's in-memory FolderRecord
UpsertFolder(fs, f, m) ==
    [fs EXCEPT ![f] = [@ EXCEPT !.present = TRUE, !.failed_files = m.failed_files,
                                !.last_indexed = m.last_indexed]]

\* IndexStorage.mark_file_error: an UPDATE, it touches an existing row only
MarkFileError(fl, p) ==
    IF fl[p].present THEN [fl EXCEPT ![p].status = "error"] ELSE fl

\* IndexStorage.mark_file_indexed
MarkFileIndexed(fl, p) ==
    IF fl[p].present THEN [fl EXCEPT ![p].status = "indexed"] ELSE fl

\* IndexStorage.remove_files_not_in: the rows of the folder it deletes
RemovedRecords(fl, f, keep_paths) ==
    {p \in Files : fl[p].present /\ FolderOf(p) = f /\ p \notin Range(keep_paths)}

\* Indexer._mark_folder_indexed
MarkFolderIndexed(fs, f, now) ==
    IF fs[f].present THEN [fs EXCEPT ![f].last_indexed = now] ELSE fs

\* -------------------------------------------------------------- call points
\* The run is suspended (or there is none): another coroutine may run.
CallPoints == {"idle", "scan", "enrich", "embed", "blocked", "woken"}

Call(op) ==
    /\ pc \in CallPoints \ {"idle"}
    /\ lastOp' = op
    /\ UNCHANGED runs
    /\ UNCHANGED <<crashed, pureVars>>

Spend == events < MaxEvents /\ events' = events + 1
Free == UNCHANGED events

\* ----------------------------------------------------------------- refresh
\* refresh(), lines 263-264: the run lock is held
RefreshRejected ==
    /\ Call("refresh")
    /\ ret' = progress
    /\ UNCHANGED <<indexerVars, frameVars, worldVars, events>>
    /\ UNCHANGED <<activeRuns, started, early, mismatched, vraised, enc, ups, resumed>>

\* refresh(), lines 266-324: take the lock, resolve the targets, prepare the
\* batches; lines 284-300 when no target folder is selected
RefreshRun(a) ==
    LET r == ResolveTargets(folders, a.folders, a.files)
        force_reembed == a.refresh_embeddings
        bs == PrepareBatches(disk, files, folders, r.targets, r.by_folder, force_reembed)
        total_files == SumLen(bs, 1)
    IN
    /\ pc \in CallPoints
    /\ runs < MaxRuns
    /\ runs' = runs + 1
    /\ UNCHANGED <<crashed, pureVars>>
    /\ lastOp' = "refresh"
    /\ is_paused' = FALSE
    /\ pause_event' = TRUE
    /\ cancelled_folders' = {}
    /\ pending_paths' = [f \in Folders |-> <<>>]
    /\ active_folder' = "none"
    /\ active_path' = "none"
    /\ current_run_started' = TRUE
    /\ current_processed' = 0
    /\ args' = a
    /\ IF r.targets = <<>>
       THEN /\ current_run_total' = 0
            /\ progress' = IndexProgress("failed", 0, 0, <<>>, 0, "no-folders", "no-folders")
            /\ ret' = progress'
            /\ UNCHANGED <<locked, pc, batches, bi, process_list, fi, mem, art>>
            /\ UNCHANGED <<files, activeRuns, started, early, mismatched, vraised, resumed>>
       ELSE /\ locked' = TRUE
            /\ files' = RegisterAll(disk, files, r.targets, r.by_folder)
            /\ batches' = bs
            /\ current_run_total' = total_files
            /\ progress' = IndexProgress("running", 0, 0, <<>>, total_files, "none", "none")
            /\ mem' = [f \in Folders |->
                         [failed_files |-> folders[f].failed_files,
                          last_indexed |-> folders[f].last_indexed]]
            /\ bi' = 1
            /\ pc' = "folder_loop"
            /\ ret' = NoRet
            /\ activeRuns' = activeRuns + 1
            /\ started' = <<>>
            /\ early' = {}
            /\ mismatched' = {}
            /\ vraised' = {}
            /\ resumed' = FALSE
            /\ UNCHANGED <<process_list, fi, art>>
    /\ UNCHANGED <<disk, folders, vstore, events, enc, ups>>

\* refresh(), lines 266-308: _resolve_targets or _prepare_batches raises (a
\* storage error).  Nothing catches it: the lock is released, the exception
\* reaches the caller and self.progress is left as it was.
RefreshRaises ==
    /\ pc \in CallPoints
    /\ runs < MaxRuns
    /\ runs' = runs + 1
    /\ UNCHANGED <<crashed, pureVars>>
    /\ Spend
    /\ lastOp' = "refresh"
    /\ ret' = NoRet
    /\ is_paused' = FALSE
    /\ pause_event' = TRUE
    /\ cancelled_folders' = {}
    /\ \E where \in {"resolve", "prepare"} :
          IF where = "prepare"
          THEN /\ pending_paths' = [f \in Folders |-> <<>>]
               /\ active_folder' = "none"
               /\ active_path' = "none"
          ELSE UNCHANGED <<pending_paths, active_folder, active_path>>
    /\ UNCHANGED <<locked, progress, current_run_started, current_run_total, current_processed>>
    /\ UNCHANGED <<frameVars, worldVars>>
    /\ UNCHANGED <<activeRuns, started, early, mismatched, vraised, enc, ups, resumed>>

\* a variant of refresh() without the lock check of lines 263-264
RefreshUnguarded(a) == RefreshRun(a)

\* Indexer.refresh
Refresh(a) == IF locked THEN RefreshRejected ELSE (RefreshRun(a) \/ RefreshRaises)

\* ---------------------------------------------------- pause / resume / etc.
\* Indexer.pause
Pause ==
    /\ Call("pause")
    /\ IF progress.status # "running" \/ is_paused
       THEN UNCHANGED <<progress, is_paused, pause_event, events>>
       ELSE /\ Spend
            /\ is_paused' = TRUE
            /\ pause_event' = FALSE
            /\ progress' = IndexProgress("paused", current_processed, progress.failed,
                                         progress.failed_items, current_run_total,
                                         "paused", progress.last_error)
    /\ ret' = progress'
    /\ UNCHANGED <<locked, pending_paths, active_folder, active_path, current_run_started,
                   current_run_total, current_processed, cancelled_folders>>
    /\ UNCHANGED <<frameVars, worldVars>>
    /\ UNCHANGED <<activeRuns, started, early, mismatched, vraised, enc, ups, resumed>>

\* Indexer.resume; Event.set() completes the future of a waiter, which then
\* returns from wait() whatever the flag is by the time it is scheduled
Resume ==
    /\ Call("resume")
    /\ IF ~is_paused
       THEN UNCHANGED <<progress, is_paused, pause_event, pc, resumed>>
       ELSE /\ is_paused' = FALSE
            /\ pause_event' = TRUE
            /\ progress' = SetRunningProgress(progress, current_processed, "resuming")
            /\ pc' = IF pc = "blocked" THEN "woken" ELSE pc
            /\ resumed' = locked
    /\ ret' = progress'
    /\ UNCHANGED <<locked, pending_paths, active_folder, active_path, current_run_started,
                   current_run_total, current_processed, cancelled_folders>>
    /\ UNCHANGED <<args, batches, bi, process_list, fi, mem, art>>
    /\ UNCHANGED <<worldVars, events, activeRuns, started, early, mismatched, vraised, enc, ups>>

\* the batches the folder loop of refresh() has not reached yet
NotReached == {batches[i].folder : i \in (bi + 1)..Len(batches)}

\* Indexer.cancel_folder
CancelFolder(f) ==
    /\ Call("cancel")
    /\ IF f \in cancelled_folders THEN Free ELSE Spend
    /\ cancelled_folders' = cancelled_folders \cup {f}
    /\ early' = IF locked /\ f \in NotReached THEN early \cup {f} ELSE early
    /\ ret' = NoRet
    /\ UNCHANGED <<locked, progress, pending_paths, active_folder, active_path,
                   current_run_started, current_run_total, current_processed,
                   pause_event, is_paused>>
    /\ UNCHANGED <<frameVars, worldVars>>
    /\ UNCHANGED <<activeRuns, started, mismatched, vraised, enc, ups, resumed>>

\* Indexer.status
Status ==
    /\ Call("status")
    /\ ret' = progress
    /\ UNCHANGED <<indexerVars, frameVars, worldVars, events>>
    /\ UNCHANGED <<activeRuns, started, early, mismatched, vraised, enc, ups, resumed>>


\* ------------------------------------------------------------ the run steps
Step ==
    /\ lastOp' = "run"
    /\ ret' = NoRet
    /\ UNCHANGED runs
    /\ UNCHANGED <<crashed, pureVars>>

Fault == Spend
NoFault == Free

CurFolder == batches[bi].folder
CurPath == process_list[fi]

\* refresh(), lines 381-388: leave the run
LeaveRun(p) ==
    /\ progress' = p
    /\ pending_paths' = [f \in Folders |-> <<>>]
    /\ active_folder' = "none"
    /\ active_path' = "none"
    /\ pause_event' = TRUE
    /\ is_paused' = FALSE
    /\ locked' = FALSE
    /\ pc' = "idle"
    /\ lastOp' = "run_end"
    /\ ret' = p
    /\ activeRuns' = activeRuns - 1
    /\ UNCHANGED <<crashed, pureVars>>
    /\ UNCHANGED runs
    /\ UNCHANGED <<current_run_started, current_run_total, current_processed, cancelled_folders>>
    \* the frame of the run is gone
    /\ args' = NoArgs
    /\ batches' = <<>>
    /\ bi' = 0
    /\ process_list' = <<>>
    /\ fi' = 0
    /\ mem' = NoMem
    /\ art' = NoArt
    /\ started' = <<>>
    /\ early' = {}
    /\ mismatched' = {}
    /\ vraised' = {}
    /\ enc' = 0
    /\ ups' = 0
    /\ resumed' = FALSE

\* refresh(), lines 356-358: _mark_folder_indexed raises.  The call stands in
\* the else branch of the try statement, so the handler of lines 339-355 does
\* not see it and lines 381-387 are not run: only the lock is released.
AbortRun ==
    /\ locked' = FALSE
    /\ pc' = "idle"
    /\ lastOp' = "run_end"
    /\ ret' = NoRet
    /\ activeRuns' = activeRuns - 1
    /\ UNCHANGED <<crashed, pureVars>>
    /\ active_folder' = "none"
    /\ UNCHANGED runs
    /\ UNCHANGED <<progress, pending_paths, active_path, current_run_started,
                   current_run_total, current_processed, pause_event, is_paused,
                   cancelled_folders>>
    /\ args' = NoArgs
    /\ batches' = <<>>
    /\ bi' = 0
    /\ process_list' = <<>>
    /\ fi' = 0
    /\ mem' = NoMem
    /\ art' = NoArt
    /\ started' = <<>>
    /\ early' = {}
    /\ mismatched' = {}
    /\ vraised' = {}
    /\ enc' = 0
    /\ ups' = 0
    /\ resumed' = FALSE

\* refresh(), lines 368-379: the folder loop ended without a break
CompleteRun ==
    /\ LeaveRun(IndexProgress("completed", current_processed, progress.failed,
                              progress.failed_items, current_run_total,
                              IF current_run_total = 0 THEN "nochanges" ELSE "none", "none"))
    /\ NoFault
    /\ UNCHANGED worldVars

\* a variant of the folder loop without the check of lines 327-329
SkipsBatchNever(f) == FALSE

\* a variant of the reuse decision that never finds the stored vectors usable
ReuseVectorsNever(existing, a, refresh_embeddings) == FALSE

\* refresh(), lines 326-329: a cancelled folder's batch is skipped
SkipsBatch(f) == f \in cancelled_folders

\* _process_folder, lines 665-681: the prologue of a folder's batch
BeginFolder ==
    LET f == CurFolder
        pl == Dedupe(batches[bi].to_process)
        m == [mem[f] EXCEPT !.failed_files =
                 Keep(@, Files \ Range(pl))]
    IN
    /\ pending_paths' = [pending_paths EXCEPT ![f] = pl]
    /\ active_folder' = f
    /\ process_list' = pl
    /\ fi' = 1
    /\ pc' = "file_loop"
    /\ IF mem[f].failed_files # <<>>
       THEN mem' = [mem EXCEPT ![f] = m] /\ folders' = UpsertFolder(folders, f, m)
       ELSE UNCHANGED <<mem, folders>>
    /\ UNCHANGED <<locked, progress, active_path, current_run_started, current_run_total,
                   current_processed, pause_event, is_paused, cancelled_folders>>
    /\ UNCHANGED <<args, batches, bi, art, disk, files, vstore>>
    /\ UNCHANGED <<activeRuns, started, early, mismatched, vraised, enc, ups, resumed>>

\* refresh(), lines 326-338: the head of the folder loop
NextFolder ==
    /\ pc = "folder_loop"
    /\ IF bi > Len(batches)
       THEN CompleteRun
       ELSE /\ Step
            /\ NoFault
            /\ IF SkipsBatch(CurFolder)
               THEN /\ bi' = bi + 1
                    /\ UNCHANGED <<indexerVars, worldVars>>
                    /\ UNCHANGED <<pc, args, batches, process_list, fi, mem, art>>
                    /\ UNCHANGED <<activeRuns, started, early, mismatched, vraised, enc, ups, resumed>>
               ELSE BeginFolder

\* _process_folder lines 689-692 and _process_single_file lines 595-609
StartFile(p) ==
    /\ pending_paths' = [pending_paths EXCEPT ![CurFolder] =
                            IF @ # <<>> /\ Head(@) = p THEN Tail(@) ELSE @]
    /\ active_folder' = CurFolder
    /\ active_path' = p
    /\ progress' = SetRunningProgress(progress, current_processed, "indexing")
    /\ pc' = "scan"
    /\ art' = NoArt
    /\ started' = Append(started, p)
    /\ enc' = 0
    /\ ups' = 0
    /\ UNCHANGED <<locked, current_run_started, current_run_total, current_processed,
                   pause_event, is_paused, cancelled_folders>>
    /\ UNCHANGED <<args, batches, bi, process_list, fi, mem, worldVars>>
    /\ UNCHANGED <<activeRuns, early, mismatched, vraised, resumed>>

\* _process_folder, line 684: the cancel check made before each file
StopsFolder(f) == f \in cancelled_folders

\* _process_folder, lines 683-688: the head of the per-file loop
FileLoop ==
    /\ pc = "file_loop"
    /\ Step
    /\ NoFault
    /\ IF fi > Len(process_list) \/ StopsFolder(CurFolder)
       THEN /\ pc' = "reconcile"
            /\ UNCHANGED <<indexerVars, worldVars>>
            /\ UNCHANGED <<args, batches, bi, process_list, fi, mem, art>>
            /\ UNCHANGED <<activeRuns, started, early, mismatched, vraised, enc, ups, resumed>>
       ELSE IF pause_event
            THEN StartFile(CurPath)
            ELSE /\ pc' = "blocked"
                 /\ UNCHANGED <<indexerVars, worldVars>>
                 /\ UNCHANGED <<args, batches, bi, process_list, fi, mem, art>>
                 /\ UNCHANGED <<activeRuns, started, early, mismatched, vraised, enc, ups, resumed>>

\* _process_folder, line 688: wait() returns to the waiter that set() woke
Woken ==
    /\ pc = "woken"
    /\ Step
    /\ NoFault
    /\ StartFile(CurPath)

\* _process_single_file, finally (645-654), then _process_folder 695-698
FinishOk(p) ==
    /\ active_path' = "none"
    /\ current_processed' = current_processed + 1
    /\ progress' = SetRunningProgress(progress, current_processed + 1, "keep")
    /\ fi' = fi + 1
    /\ pc' = "file_loop"
    /\ UNCHANGED <<locked, pending_paths, active_folder, current_run_started,
                   current_run_total, pause_event, is_paused, cancelled_folders>>
    /\ UNCHANGED <<args, batches, bi, process_list, mem, disk, folders>>
    /\ UNCHANGED <<activeRuns, started, early, resumed>>

\* _process_single_file, except (628-643) and finally (645-654)
FailFile(p) ==
    LET m == [mem[CurFolder] EXCEPT !.failed_files = Append(@, p)]
    IN
    /\ files' = MarkFileError(files, p)
    /\ mem' = [mem EXCEPT ![CurFolder] = m]
    /\ folders' = UpsertFolder(folders, CurFolder, m)
    /\ progress' = SetRunningProgress(
                      [progress EXCEPT !.failed = @ + 1, !.failed_items = Append(@, p)],
                      current_processed, "keep")
    /\ active_path' = "none"
    /\ fi' = fi + 1
    /\ pc' = "file_loop"
    /\ UNCHANGED <<locked, pending_paths, active_folder, current_run_started,
                   current_run_total, current_processed, pause_event, is_paused,
                   cancelled_folders>>
    /\ UNCHANGED <<args, batches, bi, process_list, art, disk>>
    /\ UNCHANGED <<activeRuns, started, early, enc, resumed>>

\* _process_single_file, line 613: _scan_file returns or raises
ScanDone ==
    /\ pc = "scan"
    /\ Step
    /\ \/ /\ disk[CurPath].exists
          /\ NoFault
          /\ art' = [NoArt EXCEPT !.sum = disk[CurPath].sum, !.mtime = disk[CurPath].mtime]
          /\ pc' = "enrich"
          /\ UNCHANGED <<indexerVars, worldVars>>
          /\ UNCHANGED <<args, batches, bi, process_list, fi, mem>>
          /\ UNCHANGED <<activeRuns, started, early, mismatched, vraised, enc, ups, resumed>>
       \/ /\ IF disk[CurPath].exists THEN Fault ELSE NoFault
          /\ FailFile(CurPath)
          /\ UNCHANGED <<vstore, mismatched, vraised, ups>>

\* _store_artifact, lines 1387-1403: the reuse decision
ReuseVectors(existing, a, refresh_embeddings) ==
    /\ existing.present
    /\ existing.sum = a.sum
    /\ existing.emb
    /\ existing.vchunks
    /\ reuse_embeddings
    /\ ~refresh_embeddings
    /\ existing.strategy = a.strategy

\* _process_single_file, lines 616-621: _enrich_artifact returns or raises;
\* then _store_artifact up to its first await (1387-1419)
EnrichDone ==
    /\ pc = "enrich"
    /\ Step
    /\ \/ LET p == CurPath
              a == [art EXCEPT !.strategy = args.mode,
                               !.prev = files[p].present /\ files[p].vchunks,
                               !.emb = files[p].present /\ files[p].emb,
                               !.same = /\ files[p].present
                                        /\ files[p].sum = art.sum
                                        /\ files[p].strategy = args.mode]
          IN
          /\ NoFault
          /\ IF ReuseVectors(files[p], a, batches[bi].reembed)
             THEN /\ files' = MarkFileIndexed(
                                 [files EXCEPT ![p] = [@ EXCEPT !.status = "indexed",
                                     !.sum = a.sum, !.mtime = a.mtime,
                                     !.strategy = a.strategy]], p)
                  /\ art' = a
                  /\ FinishOk(p)
                  /\ UNCHANGED <<vstore, mismatched, vraised, enc, ups>>
             ELSE /\ art' = a
                  /\ enc' = enc + 1
                  /\ pc' = "embed"
                  /\ UNCHANGED <<indexerVars, worldVars>>
                  /\ UNCHANGED <<args, batches, bi, process_list, fi, mem>>
                  /\ UNCHANGED <<activeRuns, started, early, mismatched, vraised, ups, resumed>>
       \/ /\ Fault
          /\ FailFile(CurPath)
          /\ UNCHANGED <<vstore, mismatched, vraised, ups>>

StoreOutcomes == {"ok", "mismatch", "encode_raise", "delete_raise", "upsert_raise",
                  "store_raise"}      \* storage.upsert_file raises (line 1488)

\* a store stage that lets every exception of the vector store escape
StoreRaisesOnVectorError(res) == res \in {"store_raise", "delete_raise", "upsert_raise"}

\* _store_artifact: the outcomes that raise out of it; the calls of the vector
\* store are wrapped (lines 1465-1476), storage.upsert_file is not (line 1488)
StoreRaises(res) == res = "store_raise"

\* files.folder_id REFERENCES folders(id), with PRAGMA foreign_keys=ON: a file
\* row cannot be written for a folder that has no row (storage.py 31, 77)
ForeignKeyFails(fs, f) == ~fs[f].present

\* _embed_chunks, lines 1519-1524, seen from _store_artifact 1418-1422:
\* are there vectors to store after the embedding call returned `res`?
HasVectors(res) == res \notin {"mismatch", "encode_raise"}

\* _store_artifact, lines 1419-1489, and _process_single_file 624-626
EmbedDone ==
    /\ pc = "embed"
    /\ Step
    /\ \E res \in StoreOutcomes :
        LET p == CurPath
            vectors == HasVectors(res)
            deleted == IF art.prev /\ res # "delete_raise" THEN vstore \ {p} ELSE vstore
            upserted == vectors /\ res # "upsert_raise"
        IN
        /\ IF res = "ok" THEN NoFault ELSE Fault
        /\ res = "delete_raise" => art.prev
        /\ vstore' = IF upserted THEN deleted \cup {p} ELSE deleted
        /\ ups' = IF vectors THEN ups + 1 ELSE ups
        /\ mismatched' = IF res = "mismatch" THEN mismatched \cup {p} ELSE mismatched
        /\ vraised' = IF res \in {"delete_raise", "upsert_raise"}
                      THEN vraised \cup {p} ELSE vraised
        /\ IF StoreRaises(res) \/ ForeignKeyFails(folders, CurFolder)
           THEN FailFile(p)
           ELSE /\ files' = MarkFileIndexed(
                               [files EXCEPT ![p] =
                                   [present |-> TRUE, status |-> "indexed", sum |-> art.sum,
                                    mtime |-> art.mtime, emb |-> vectors, vchunks |-> upserted,
                                    chunks |-> TRUE, strategy |-> art.strategy,
                                    csum |-> art.sum]], p)
                /\ FinishOk(p)
                /\ UNCHANGED <<art, enc>>

\* _process_folder, lines 700-709, then refresh() 339-367
Reconcile ==
    /\ pc = "reconcile"
    /\ \/ LET f == CurFolder
              removed == RemovedRecords(files, f, batches[bi].paths)
          IN
          /\ Step
          /\ NoFault
          /\ files' = [p \in Files |-> IF p \in removed THEN NoFile ELSE files[p]]
          /\ vstore' = vstore \ {p \in removed : files[p].vchunks \/ files[p].chunks}
          /\ folders' = MarkFolderIndexed(folders, f, runs)
          /\ pending_paths' = pending_paths
          /\ active_folder' = "none"
          /\ progress' = IndexProgress("running", current_processed, progress.failed,
                                       progress.failed_items, current_run_total,
                                       progress.message, "none")
          /\ bi' = bi + 1
          /\ pc' = "folder_loop"
          /\ UNCHANGED <<locked, active_path, current_run_started, current_run_total,
                         current_processed, pause_event, is_paused, cancelled_folders>>
          /\ art' = NoArt
          /\ enc' = 0
          /\ ups' = 0
          /\ UNCHANGED <<args, batches, process_list, fi, mem, disk>>
          /\ UNCHANGED <<activeRuns, started, early, mismatched, vraised, resumed>>
       \/ LET removed == RemovedRecords(files, CurFolder, batches[bi].paths)
          IN
          \* vector_store.delete raises (lines 703-708): the rows are gone already
          /\ \E p \in removed : files[p].vchunks \/ files[p].chunks
          /\ Fault
          /\ files' = [p \in Files |-> IF p \in removed THEN NoFile ELSE files[p]]
          /\ LeaveRun(IndexProgress("failed", current_processed, progress.failed,
                                    progress.failed_items, current_run_total,
                                    progress.message, "exception"))
          /\ UNCHANGED <<disk, folders, vstore>>
       \/ LET removed == RemovedRecords(files, CurFolder, batches[bi].paths)
          IN
          \* _mark_folder_indexed raises after the reconciliation was done
          /\ Fault
          /\ files' = [p \in Files |-> IF p \in removed THEN NoFile ELSE files[p]]
          /\ vstore' = vstore \ {p \in removed : files[p].vchunks \/ files[p].chunks}
          /\ AbortRun
          /\ UNCHANGED <<disk, folders>>

\* ----------------------------------------------------------- the filesystem
\* An edit made between two runs: touch, rewrite or delete a file
Edit(p, kind) ==
    /\ pc = "idle"
    /\ Spend
    /\ disk[p].exists
    /\ disk' = [disk EXCEPT ![p] =
                  IF kind = "touch" THEN [@ EXCEPT !.mtime = @ + 1]
                  ELSE IF kind = "write" THEN [@ EXCEPT !.mtime = @ + 1, !.sum = @ + 1]
                  ELSE [@ EXCEPT !.exists = FALSE]]
    /\ lastOp' = "edit"
    /\ UNCHANGED <<crashed, pureVars>>
    /\ ret' = NoRet
    /\ UNCHANGED <<indexerVars, frameVars, files, folders, vstore>>
    /\ UNCHANGED runs
    /\ UNCHANGED <<activeRuns, started, early, mismatched, vraised, enc, ups, resumed>>

\* -------------------------------------------------------- a process crash
\* the mutations of _store_artifact, lines 1465-1489, after which the process
\* can die before the next one; each is committed on its own
CrashCuts == {"after_delete", "after_vectors", "after_upsert_file"}

\* The process dies inside _store_artifact and is started again: the Indexer
\* is constructed anew (lines 67-106), storage, vector store and disk remain.
Crash ==
    /\ pc = "embed"
    /\ Spend
    /\ \E cut \in CrashCuts :
        LET p == CurPath
        IN
        /\ cut = "after_delete" => art.prev          \* line 1465: something to delete
        /\ vstore' = IF cut = "after_delete" THEN vstore \ {p} ELSE vstore \cup {p}
        /\ files' = IF cut = "after_upsert_file"      \* line 1488 done, 1489 not
                     THEN [files EXCEPT ![p] =
                              [@ EXCEPT !.present = TRUE, !.status = "indexed",
                                        !.sum = art.sum, !.mtime = art.mtime,
                                        !.emb = TRUE, !.vchunks = TRUE,
                                        !.strategy = art.strategy]]
                     ELSE files
        /\ crashed' = [path |-> p, run |-> runs]
    /\ locked' = FALSE
    /\ progress' = IndexProgress("idle", 0, 0, <<>>, 0, "none", "none")
    /\ pending_paths' = [f \in Folders |-> <<>>]
    /\ active_folder' = "none"
    /\ active_path' = "none"
    /\ current_run_started' = FALSE
    /\ current_run_total' = 0
    /\ current_processed' = 0
    /\ pause_event' = TRUE
    /\ is_paused' = FALSE
    /\ cancelled_folders' = {}
    /\ pc' = "idle"
    /\ args' = NoArgs
    /\ batches' = <<>>
    /\ bi' = 0
    /\ process_list' = <<>>
    /\ fi' = 0
    /\ mem' = NoMem
    /\ art' = NoArt
    /\ lastOp' = "crash"
    /\ ret' = NoRet
    /\ activeRuns' = 0
    /\ started' = <<>>
    /\ early' = {}
    /\ mismatched' = {}
    /\ vraised' = {}
    /\ enc' = 0
    /\ ups' = 0
    /\ resumed' = FALSE
    /\ UNCHANGED <<disk, folders, runs, pureVars>>

\* ------------------------------------------------------------ specification
Next ==
    \/ \E a \in RefreshArgs : Refresh(a)
    \/ Pause
    \/ Resume
    \/ \E f \in Folders : CancelFolder(f)
    \/ Status
    \/ NextFolder
    \/ FileLoop
    \/ Woken
    \/ ScanDone
    \/ EnrichDone
    \/ EmbedDone
    \/ Reconcile
    \/ \E p \in Files, kind \in {"touch", "write", "delete"} : Edit(p, kind)

Spec == Init /\ [][Next]_vars

\* Every call that is suspended eventually returns or raises, the event loop
\* schedules a runnable coroutine, and a pause is eventually followed by resume()
RunStep == NextFolder \/ FileLoop \/ Woken \/ ScanDone \/ EnrichDone \/ EmbedDone \/ Reconcile

FairSpec == Spec /\ WF_vars(RunStep) /\ WF_vars(is_paused /\ Resume)

\* ------------------------------------------------------------- vocabulary
\* the folder loop has gone through every batch of the run
AtEnd == locked /\ pc = "folder_loop" /\ bi > Len(batches)

\* the files the run selected, and where: batch index, first position in it
Selected == UNION {Range(batches[i].to_process) : i \in 1..Len(batches)}
BatchOf(p) == CHOOSE i \in 1..Len(batches) : p \in Range(batches[i].to_process)
FirstPos(p) ==
    CHOOSE k \in 1..Len(batches[BatchOf(p)].to_process) :
        /\ batches[BatchOf(p)].to_process[k] = p
        /\ \A j \in 1..(k - 1) : batches[BatchOf(p)].to_process[j] # p
Precedes(p, q) ==
    \/ BatchOf(p) < BatchOf(q)
    \/ BatchOf(p) = BatchOf(q) /\ FirstPos(p) < FirstPos(q)

FilesOf(f) == {p \in Files : FolderOf(p) = f}

\* this step starts a file: _process_single_file is entered for it
StartsFile(p) == Len(started') = Len(started) + 1 /\ started'[Len(started')] = p

\* ------------------------------------------------------------------ claims
\* C1: at most one refresh() run executes at any time, and a refresh() called
\* while the run lock is held (the run running or paused) is not queued: it
\* returns the in-flight progress and changes neither the progress, the pending
\* queues, the cancel set, the pause flag, the run's position nor storage.
C1_SingleRunNotQueued ==
    /\ [](activeRuns <= 1)
    /\ [][(locked /\ lastOp' = "refresh") =>
            /\ ret' = progress
            /\ locked'
            /\ UNCHANGED <<progress, pending_paths, cancelled_folders, is_paused,
                           pause_event, files, folders, vstore>>
            /\ UNCHANGED <<frameVars, runs, activeRuns>>]_vars

\* a refresh() was answered while the run it met was paused
C1_Witness ==
    /\ locked
    /\ lastOp = "refresh"
    /\ is_paused
    /\ ret = progress
    /\ ret.status = "paused"
    /\ activeRuns = 1

\* C2: once pause() is accepted the file in flight runs to completion (the
\* call interrupts nothing), and as long as the pause is in effect, that is
\* until resume(), no further file of any folder is started.
C2_PauseHoldsFurtherFiles ==
    /\ [][lastOp' = "pause" => UNCHANGED <<pc, active_path, art, fi>>]_vars
    /\ [][is_paused => \A p \in Files : ~StartsFile(p)]_vars

\* C3: from the accepted pause() until resume(), status() reports `paused` in
\* every intermediate state, also after the file in flight has finished
\* (successfully or not) and after the folder's batch has ended.
C3_StatusPausedUntilResume ==
    (locked /\ is_paused) => progress.status = "paused"

\* C5: after cancel_folder(f) during a run no file of f is started any more,
\* whatever the interleaving, including a cancel made while the run is paused
\* and followed by resume().
C5_NoStartAfterCancel ==
    [][\A p \in Files : (locked /\ FolderOf(p) \in cancelled_folders) => ~StartsFile(p)]_vars

\* C8: a file whose embedding call returned a number of vectors different
\* from the number of texts ends its pipeline with status `error`, counted in
\* failed and failed_items and not in processed, and without vectors upserted.
C8_MismatchFailsFile ==
    \A p \in mismatched :
        (locked /\ active_path # p) =>
            /\ files[p].status = "error"
            /\ p \in Range(progress.failed_items)
            /\ p \notin vstore

\* C10: reconciliation removes a stored file record, with its vectors, exactly
\* when its path is no longer present under the folder root: a stored file
\* that still exists on disk is never removed, in a full scan as in a refresh
\* naming explicit files, and after a folder's full-scan batch no record of a
\* vanished file of that folder is left.
C10_RemovesOnlyVanished ==
    /\ [][\A p \in Files :
            (files[p].present /\ ~files'[p].present) => ~disk[p].exists]_vars
    /\ [][(pc = "reconcile" /\ pc' = "folder_loop" /\ ~batches[bi].specific) =>
            \A p \in FilesOf(batches[bi].folder) :
                ~disk[p].exists => (~files'[p].present /\ p \notin vstore')]_vars

\* the moves of progress.status the run lifecycle names
Lifecycle ==
    {<<"idle", "running">>, <<"running", "paused">>, <<"paused", "running">>,
     <<"running", "completed">>, <<"running", "failed">>,
     <<"completed", "running">>, <<"failed", "running">>}

StartedInOrderOnce ==
    /\ Range(started) \subseteq Selected
    /\ \A i, j \in 1..Len(started) : i < j => Precedes(started[i], started[j])
    /\ \A p \in Range(started), q \in Selected :
          (Precedes(q, p) /\ FolderOf(q) \notin cancelled_folders) => q \in Range(started)
    /\ AtEnd =>
          /\ \A q \in Selected : FolderOf(q) \notin cancelled_folders => q \in Range(started)
          /\ current_processed + progress.failed = Len(started)

\* C4: after resume() every selected file that was not yet started is
\* eventually started, in the original order, and each is processed exactly
\* once (none skipped, none repeated): the resumed run reaches the end of its
\* folder loop with all of them started, unless an exception ends the run
\* before; only the files of a cancelled folder are excused.
C4_ResumeStartsRest ==
    /\ []((locked /\ resumed) => StartedInOrderOnce)
    /\ (locked /\ resumed) ~> (AtEnd \/ ~locked)

\* a run that was paused and resumed has ended its folder loop with every
\* selected file of its three folders started
C4_Witness ==
    /\ AtEnd
    /\ resumed
    /\ cancelled_folders = {}
    /\ started = <<"a", "b", "c", "d">>
    /\ current_processed = 4

\* C6: when cancel_folder(f) arrives after the run started and before the
\* folder loop reached f's batch, no file of f is scanned, enriched, embedded,
\* stored or status-marked in that run and f is not stamped as indexed, while
\* the batches of the folders that are not cancelled still run to their end.
C6_EarlyCancelSkipsBatch ==
    /\ [][locked =>
            \A f \in early :
               /\ \A p \in FilesOf(f) :
                     /\ files'[p] = files[p]
                     /\ (p \in vstore') = (p \in vstore)
                     /\ active_path' # p
                     /\ ~StartsFile(p)
               /\ folders'[f] = folders[f]
               /\ active_folder' # f]_vars
    /\ [](AtEnd =>
            \A i \in 1..Len(batches) :
               batches[i].folder \notin cancelled_folders =>
                  /\ folders[batches[i].folder].last_indexed = runs
                  /\ Range(batches[i].to_process) \subseteq Range(started))

\* f2 was cancelled while f1's batch ran; the folder loop has ended, f2's file
\* is as it was registered and f3's batch, which follows f2's, has run
C6_Witness ==
    /\ AtEnd
    /\ early = {"f2"}
    /\ started = <<"a", "b", "d">>
    /\ files["c"].status = "pending"
    /\ folders["f2"].last_indexed = 0
    /\ folders["f3"].last_indexed = runs
    /\ files["d"].status = "indexed"

FailsFile(p) == locked /\ active_path = p /\ progress'.failed = progress.failed + 1

\* what the file boundary does with a failure, the record in the files table left aside
FailureCounted(p) ==
    /\ current_processed' = current_processed
    /\ progress'.processed = progress.processed
    /\ progress'.failed_items = Append(progress.failed_items, p)
    /\ folders'[FolderOf(p)].failed_files = Append(folders[FolderOf(p)].failed_files, p)
    /\ locked'
    /\ pc' = "file_loop"

\* C11: an exception raised in a stage of a file's pipeline is caught at the
\* file boundary: the file's record gets status `error`, failed is incremented,
\* processed is not, one entry is added to failed_items and to the folder's
\* failed_files, the run goes on, and the remaining files and folders are
\* still processed.
C11_FileFailureRecorded ==
    /\ [][\A p \in Files : FailsFile(p) =>
            (FailureCounted(p) /\ files'[p].status = "error")]_vars
    /\ [](AtEnd => \A q \in Selected :
                      FolderOf(q) \notin cancelled_folders => q \in Range(started))

\* this step is an exception raised in a run outside the per-file handling:
\* in target resolution or batch preparation, or at the end of a folder's batch
RunException ==
    /\ events' = events + 1
    /\ \/ ~locked /\ lastOp' = "refresh"
       \/ locked /\ pc = "reconcile"

\* C12: an unexpected exception raised inside a run outside the per-file
\* handling (target resolution, batch preparation, folder reconciliation,
\* stamping last_indexed_at) ends the run with status `failed` and last_error
\* set, stops the remaining folders, and leaves the files already indexed in
\* this run indexed.
C12_RunExceptionFailsRun ==
    [][RunException =>
          /\ progress'.status = "failed"
          /\ progress'.last_error # "none"
          /\ ~locked'
          /\ pc' = "idle"
          /\ \A p \in Range(started) :
                files[p].status = "indexed" => files'[p].status = "indexed"]_vars

\* C13: a file whose processing failed in a run is recorded in its folder's
\* failed_files, stays there until it is about to be processed again, and is
\* selected by the next full refresh of the folder whatever its stored mtime
\* and checksum are.
C13_FailedFileRetried ==
    /\ [][\A p \in Files :
            FailsFile(p) => p \in Range(folders'[FolderOf(p)].failed_files)]_vars
    /\ [][\A p \in Files :
            (/\ p \in Range(folders[FolderOf(p)].failed_files)
             /\ p \notin Range(folders'[FolderOf(p)].failed_files))
               => (locked /\ pc = "folder_loop" /\ p \in Range(process_list'))]_vars
    /\ [][(~locked /\ locked') =>
            \A i \in 1..Len(batches') :
               ~batches'[i].specific =>
                  \A p \in Range(folders[batches'[i].folder].failed_files) :
                     disk[p].exists => p \in Range(batches'[i].to_process)]_vars

\* file a failed in the first run and was not edited since: the second run, a
\* full scan without forced refresh, has selected it
C13_Witness ==
    /\ locked
    /\ runs = 2
    /\ pc = "folder_loop"
    /\ bi = 1
    /\ batches[1].folder = "f1"
    /\ ~batches[1].specific
    /\ ~args.refresh_embeddings
    /\ "a" \in Range(folders["f1"].failed_files)
    /\ files["a"].mtime = disk["a"].mtime
    /\ disk["a"].mtime = 1
    /\ "a" \in Range(batches[1].to_process)
    /\ "b" \notin Range(batches[1].to_process)

\* C26: within a run a file is started only when no other file is active,
\* and the files are started folder after folder in the order of the batches,
\* within a folder in the order of its selection list with repetitions
\* removed (the first occurrence counts), none of them twice.
C26_OneFileInSelectionOrder ==
    /\ [][\A p \in Files : (locked /\ StartsFile(p)) => active_path = "none"]_vars
    /\ [](locked =>
            /\ Range(started) \subseteq Selected
            /\ \A i, j \in 1..Len(started) : i < j => Precedes(started[i], started[j]))

\* a run asked for the files b, a, b has started b and then a, and is at the
\* end of its folder loop
C26_Witness ==
    /\ AtEnd
    /\ args.files = <<"b", "a", "b">>
    /\ started = <<"b", "a">>
    /\ active_path = "none"

\* C27: when VectorStore.upsert or VectorStore.delete raises in the store
\* stage of a file, the file is not failed: its record is persisted with
\* status `indexed` and with its chunk snapshots, failed and failed_items stay
\* as they were, the file counts as processed, and the run goes on to the
\* next file of the folder.
C27_VectorErrorKeepsFile ==
    [][\A p \in Files :
          (p \in vraised' /\ p \notin vraised) =>
              /\ files'[p].present
              /\ files'[p].status = "indexed"
              /\ files'[p].chunks
              /\ progress'.failed = progress.failed
              /\ progress'.failed_items = progress.failed_items
              /\ current_processed' = current_processed + 1
              /\ locked'
              /\ pc' = "file_loop"
              /\ fi' = fi + 1]_vars

\* the vector store raised for file a; a was counted as processed and the
\* run has started the next file, b
C27_Witness ==
    /\ locked
    /\ "a" \in vraised
    /\ files["a"].status = "indexed"
    /\ ~files["a"].vchunks
    /\ progress.failed = 0
    /\ started = <<"a", "b">>

\* ------------------------------------------------------ crash and restart
CrashNext == Next \/ Crash

CrashSpec == Init /\ [][CrashNext]_vars

\* the record of p, its chunk rows and its vector entries describe one content
Consistent(p) ==
    /\ files[p].present
    /\ files[p].status = "indexed"
    /\ files[p].chunks /\ files[p].csum = files[p].sum
    /\ files[p].vchunks <=> p \in vstore

\* the run that followed the crash has gone through all its folders, and the
\* file whose pipeline was cut was among the candidates of a folder it processed
NextRunDone(p) ==
    /\ crashed.path = p
    /\ runs = crashed.run + 1
    /\ AtEnd
    /\ \E i \in 1..Len(batches) :
          /\ p \in Range(batches[i].paths)
          /\ batches[i].folder \notin cancelled_folders

\* C15: after a crash between two mutations of a file's pipeline the next
\* refresh processes the file again (it is neither skipped as unchanged nor
\* served by the reuse path), and unless that processing fails, the record,
\* the chunk rows and the vector entries of the file agree again.
C15_CrashReprocessed ==
    \A p \in Files :
        NextRunDone(p) =>
            /\ p \in Range(started)
            /\ p \notin Range(progress.failed_items) => Consistent(p)

\* ------------------------------------------------ change detection, alone
\* _paths_to_refresh applied to one candidate path, over all it can find
Detect ==
    /\ verdict = "unset"
    /\ verdict' = IF SelectsPath(cand) THEN "selected" ELSE "skipped"
    /\ UNCHANGED <<cand, runVars, resolveVars, chunkVars, fenceVars, stageVars, searchVars, removeVars, snapVars, pdfVars, enrichVars, sentVars, pageVars>>

DetectInit ==
    /\ IndexerInit
    /\ ResolveIdle
    /\ ChunkIdle
    /\ FenceIdle
    /\ StageIdle
    /\ SearchIdle
    /\ RemoveIdle
    /\ SnapIdle
    /\ PdfIdle
    /\ EnrichIdle
    /\ SentIdle
    /\ PageIdle
    /\ cand \in Candidates
    /\ verdict = "unset"

DetectSpec == DetectInit /\ [][Detect]_vars

\* C14: without force-refresh a candidate is selected exactly when it failed
\* before, or has no stored record, or its stored mtime differs by a second or
\* more, or its size differs, or its stored checksum is missing; with
\* force-refresh every candidate is selected.
C14_SelectsExactlyChanged ==
    verdict # "unset" =>
       (verdict = "selected") = (\/ cand.force
                  \/ cand.failed
                  \/ ~cand.existing
                  \/ Abs(cand.modified - cand.stored_modified) >= 2
                  \/ cand.size # cand.stored_size
                  \/ ~cand.checksum)

\* C14, amended: the same, with one more reason to select a candidate: it has
\* a stored record but can no longer be stat'ed (path.stat() raises OSError).
C14_SelectsExactlyChangedAmended ==
    verdict # "unset" =>
       (verdict = "selected") = (\/ cand.force
                  \/ cand.failed
                  \/ ~cand.existing
                  \/ ~cand.stat_ok
                  \/ (cand.stat_ok /\ Abs(cand.modified - cand.stored_modified) >= 2)
                  \/ (cand.stat_ok /\ cand.size # cand.stored_size)
                  \/ ~cand.checksum)

\* a candidate with a complete, matching record that cannot be stat'ed was selected
C14_Witness ==
    /\ verdict = "selected"
    /\ ~cand.force /\ ~cand.failed /\ cand.existing /\ cand.checksum
    /\ ~cand.stat_ok
    /\ cand.modified = cand.stored_modified
    /\ cand.size = cand.stored_size

\* ----------------------------------------------- target resolution, alone
\* the tables folders that _resolve_targets can read: each folder is not
\* registered ("none"), or registered with scan mode "full" or "manual"
FolderTables == [Folders -> {"none", "full", "manual"}]

FolderTable(t) ==
    [f \in Folders |-> [present |-> t[f] # "none", enabled |-> TRUE,
                        scan_mode |-> IF t[f] = "manual" THEN "manual" ELSE "full",
                        failed_files |-> <<>>, last_indexed |-> 0]]

\* what a refresh can name
Requests ==
    [folders : {<<>>, <<"f1">>, <<"f2">>, <<"fx">>, <<"f2", "f3">>},
     files : {<<>>, <<"a">>, <<"c">>, <<"d">>, <<"b", "a", "b">>}]

\* the sets of files that were deleted before the refresh
GoneSets == {{}, {"a"}, {"c"}, {"a", "b"}}
DiskWithout(gone) == [p \in Files |-> [exists |-> p \notin gone, mtime |-> 1, sum |-> 1]]

\* _resolve_targets applied to one request and one table, and _prepare_batches
\* applied to what it returned (refresh, lines 296-305)
Resolve ==
    /\ ~resolved.done
    /\ \E gone \in GoneSets :
         LET r == ResolveTargets(FolderTable(ftable), req.folders, req.files)
         IN resolved' = [done |-> TRUE, targets |-> r.targets, by_folder |-> r.by_folder,
                         gone |-> gone,
                         batches |-> PrepareBatches(DiskWithout(gone), files,
                                                    FolderTable(ftable), r.targets,
                                                    r.by_folder, FALSE)]
    /\ UNCHANGED <<req, ftable, runVars, detectVars, chunkVars, fenceVars, stageVars, searchVars, removeVars, snapVars, pdfVars, enrichVars, sentVars, pageVars>>

ResolveInit ==
    /\ IndexerInit
    /\ DetectIdle
    /\ ChunkIdle
    /\ FenceIdle
    /\ StageIdle
    /\ SearchIdle
    /\ RemoveIdle
    /\ SnapIdle
    /\ PdfIdle
    /\ EnrichIdle
    /\ SentIdle
    /\ PageIdle
    /\ req \in Requests
    /\ ftable \in FolderTables
    /\ resolved = NoResolved

ResolveSpec == ResolveInit /\ [][Resolve]_vars

\* the request names folder f, or a file inside it
NamesFolder(f) == f \in Range(req.folders)
NamesFileIn(f) == \E p \in Range(req.files) : FolderOf(p) = f
\* the request names a file that lies in a registered folder
NamesRegisteredFile == \E p \in Range(req.files) : ftable[FolderOf(p)] # "none"

min_chunk_tokens == 50       \* ChunkingPipeline.__init__, the default (line 67)
char_ratio == 4              \* self.char_ratio (line 72)
MaxAtoms == 4                \* sentences in one text

SentenceLens == {97, 100, 1250}
ChunkConfigs ==
    {[chunk_tokens |-> 320, overlap_tokens |-> 40],      \* the module's defaults
     [chunk_tokens |-> 16, overlap_tokens |-> 0],        \* overrides given to build
     [chunk_tokens |-> 640, overlap_tokens |-> 80]}

RECURSIVE SumSeq(_)
SumSeq(q) == IF Len(q) = 0 THEN 0 ELSE Head(q) + SumSeq(Tail(q))

\* len(block.text): the sentences and the spaces between them
BlockLen(b) == SumSeq(b) + Len(b) - 1

TextBlocks == UNION {[1..n -> SentenceLens] : n \in 1..2}
TextSections == UNION {[1..n -> TextBlocks] : n \in 1..2}
SectionAtoms(sec) == SumSeq([k \in 1..Len(sec) |-> Len(sec[k])])
TextAtoms(t) == SumSeq([k \in 1..Len(t) |-> SectionAtoms(t[k])])
Texts ==
    {<<>>} \cup
    UNION {{t \in [1..n -> {sec \in TextSections : SectionAtoms(sec) <= MaxAtoms - n + 1}] :
               TextAtoms(t) <= MaxAtoms} : n \in 1..MaxAtoms}

\* len(text.strip()): blocks and sections are separated by "\n\n"
TextChars(t) ==
    SumSeq([k \in 1..Len(t) |->
               SumSeq([m \in 1..Len(t[k]) |-> BlockLen(t[k][m]) + 2])]) - 2

\* the sentences of a text, in reading order: <<section, block, sentence>>
RECURSIVE Flatten(_)
Flatten(qq) == IF Len(qq) = 0 THEN <<>> ELSE Head(qq) \o Flatten(Tail(qq))
BlockAtoms(si, bn, b) == [i \in 1..Len(b) |-> <<si, bn, i>>]
AllAtoms(t) ==
    Flatten([si \in 1..Len(t) |->
                Flatten([bn \in 1..Len(t[si]) |-> BlockAtoms(si, bn, t[si][bn])])])

\* _token_count without a tokenizer (lines 678-680)
TokenCount(chars) == IF chars \div char_ratio < 1 THEN 1 ELSE chars \div char_ratio

\* ---- _split_sections (lines 568-652)
\* a section body as the blocks it holds; pre is the width of the whitespace
\* that stands before the block in the body
RawSection(t, si) ==
    [bn \in 1..Len(t[si]) |-> [sid |-> si, bid |-> bn, sents |-> t[si][bn], pre |-> 2]]

\* len(section_body.strip())
StrippedLen(sec) ==
    SumSeq([k \in 1..Len(sec) |->
               BlockLen(sec[k].sents) + IF k = 1 THEN 0 ELSE sec[k].pre])

\* pending_body + "\n" + section_body: the first body ends with a blank line
JoinBodies(a, b) == a \o <<[b[1] EXCEPT !.pre = 3]>> \o Tail(b)

RECURSIVE MergeSections(_, _, _, _, _)
MergeSections(t, si, merged, pending, min_section_chars) ==
    IF si > Len(t)
    THEN IF Len(pending) = 0 THEN merged
         ELSE IF Len(merged) > 0
              THEN [merged EXCEPT ![Len(merged)] = JoinBodies(@, pending)]
              ELSE <<pending>>
    ELSE LET sec == RawSection(t, si)
             combined_body == JoinBodies(pending, sec)
         IN IF Len(pending) > 0
            THEN IF StrippedLen(combined_body) >= min_section_chars
                 THEN MergeSections(t, si + 1, Append(merged, combined_body), <<>>,
                                    min_section_chars)
                 ELSE MergeSections(t, si + 1, merged, combined_body, min_section_chars)
            ELSE IF StrippedLen(sec) < min_section_chars
                 THEN MergeSections(t, si + 1, merged, sec, min_section_chars)
                 ELSE MergeSections(t, si + 1, Append(merged, sec), <<>>, min_section_chars)

SplitSections(t) == MergeSections(t, 1, <<>>, <<>>, min_chunk_tokens * char_ratio)

\* ---- _get_overlap_text (lines 544-566): the length of the text it returns
\* items: the sentences of the chunk with the separator that follows each
ItemsLen(items) ==
    SumSeq([i \in 1..Len(items) |->
               items[i].len + IF i < Len(items) THEN items[i].sep ELSE 0])
\* the offset of the full stop that closes item i
EndOf(items, i) ==
    SumSeq([m \in 1..(i - 1) |-> items[m].len + items[m].sep]) + items[i].len - 1

GetOverlapText(items, overlap_chars) ==
    LET total == ItemsLen(items)
        region == total - overlap_chars            \* where text[-overlap_chars:] starts
        k == Len(items)
        \* the first sentence _split_into_sentences finds in the region
        j == CHOOSE i \in 1..k :
                /\ EndOf(items, i) >= region
                /\ \A m \in 1..(i - 1) : EndOf(items, m) < region
    IN IF overlap_chars <= 0 \/ total <= overlap_chars THEN 0
       ELSE IF j < k THEN total - (EndOf(items, j) + 1 + items[j].sep)
       ELSE IF region <= total - items[k].len THEN items[k].len
       ELSE overlap_chars

\* ---- offsets (lines 596-606 of _split_sections, 362-367 of
\* _parse_paragraphs_and_lists)
\* len of the raw body of section si: every block is followed by a blank line
RawBodyLen(t, si) == SumSeq([m \in 1..Len(t[si]) |-> BlockLen(t[si][m]) + 2])
\* match.start() of the heading of section si
SectionStart(t, si) == SumSeq([s \in 1..(si - 1) |-> RawBodyLen(t, s)])
\* the path and the start offset _split_sections returns with a merged body
\* are those of the raw section the body begins with (lines 621-623, 648)
SectionPathOf(sec) == <<sec[1].sid>>
SectionStartOffset(t, sec) == SectionStart(t, sec[1].sid)
\* block.start_offset: where block k begins in the body of its section
BlockStart(sec, k) ==
    SumSeq([m \in 1..(k - 1) |->
               BlockLen(sec[m].sents) + IF m = 1 THEN 0 ELSE sec[m].pre])
        + IF k = 1 THEN 0 ELSE sec[k].pre
\* sent_start: where sentence i begins in its block
SentStart(b, i) == SumSeq([m \in 1..(i - 1) |-> b[m] + 1])

\* ---- _split_at_sentences (lines 439-477) over _split_into_sentences (479-507)
RECURSIVE SplitAtSentences(_, _, _, _, _, _, _, _)
SplitAtSentences(sid, bid, b, i, chunks, cur, max_chars, min_chars) ==
    LET n == Len(b)
        Closed(c) == [atoms |-> c.atoms, ov |-> 0,
                      start |-> SentStart(b, c.atoms[1][3]),
                      chars |-> IF c.atoms[Len(c.atoms)][3] = n
                                THEN c.chars ELSE c.chars - 1]   \* .strip()
    IN IF i > n
       THEN IF Len(cur.atoms) > 0 THEN Append(chunks, Closed(cur)) ELSE chunks
       ELSE LET sentence == b[i] + IF i < n THEN 1 ELSE 0
                added == [atoms |-> Append(cur.atoms, <<sid, bid, i>>),
                          chars |-> cur.chars + sentence]
                alone == [atoms |-> <<<<sid, bid, i>>>>, chars |-> sentence]
            IN IF Len(cur.atoms) > 0 /\ cur.chars + sentence > max_chars
               THEN IF Closed(cur).chars >= min_chars
                    THEN SplitAtSentences(sid, bid, b, i + 1, Append(chunks, Closed(cur)),
                                          alone, max_chars, min_chars)
                    ELSE SplitAtSentences(sid, bid, b, i + 1, chunks, added,
                                          max_chars, min_chars)
               ELSE SplitAtSentences(sid, bid, b, i + 1, chunks, added, max_chars, min_chars)

\* ---- _semantic_chunk (lines 186-262)
NoChunk == [atoms |-> <<>>, items |-> <<>>, chars |-> 0, ov |-> 0, start |-> 0]
BlockItems(b) ==
    [i \in 1..Len(b) |-> [len |-> b[i], sep |-> IF i < Len(b) THEN 1 ELSE 2]]
Payload(c) == [atoms |-> c.atoms, chars |-> c.chars, ov |-> c.ov, start |-> c.start]
\* lines 228-230: the pieces of a large block, placed at the block's offset
Placed(sub_chunks, start_offset) ==
    [i \in 1..Len(sub_chunks) |->
        [sub_chunks[i] EXCEPT !.start = start_offset + sub_chunks[i].start]]

RECURSIVE SemanticChunk(_, _, _, _, _, _, _)
SemanticChunk(sec, k, chunks, cur, max_chars, min_chars, overlap_chars) ==
    IF k > Len(sec)
    THEN IF Len(cur.atoms) > 0 THEN Append(chunks, Payload(cur)) ELSE chunks
    ELSE LET block == sec[k]
             block_len == BlockLen(block.sents)
             start_offset == BlockStart(sec, k)
             atoms == BlockAtoms(block.sid, block.bid, block.sents)
             fresh == [atoms |-> atoms, items |-> BlockItems(block.sents),
                       chars |-> block_len, ov |-> 0, start |-> start_offset]
             joined == [atoms |-> cur.atoms \o atoms,
                        items |-> cur.items \o BlockItems(block.sents),
                        chars |-> cur.chars + 2 + block_len, ov |-> cur.ov,
                        start |-> cur.start]
             overlap_text == GetOverlapText(cur.items, overlap_chars)
             seeded == [atoms |-> atoms,
                        items |-> <<[len |-> overlap_text, sep |-> 2]>>
                                     \o BlockItems(block.sents),
                        chars |-> overlap_text + 2 + block_len, ov |-> overlap_text,
                        start |-> start_offset - overlap_text]
         IN IF block_len > max_chars
            THEN SemanticChunk(sec, k + 1,
                    (IF Len(cur.atoms) > 0 THEN Append(chunks, Payload(cur)) ELSE chunks)
                        \o Placed(SplitAtSentences(block.sid, block.bid, block.sents, 1,
                                      <<>>, [atoms |-> <<>>, chars |-> 0],
                                      max_chars, min_chars),
                                  start_offset),
                    NoChunk, max_chars, min_chars, overlap_chars)
            ELSE IF Len(cur.atoms) > 0 /\ cur.chars + block_len + 2 > max_chars
            THEN IF cur.chars >= min_chars
                 THEN SemanticChunk(sec, k + 1, Append(chunks, Payload(cur)),
                                    IF overlap_text > 0 THEN seeded ELSE fresh,
                                    max_chars, min_chars, overlap_chars)
                 ELSE SemanticChunk(sec, k + 1, chunks, joined,
                                    max_chars, min_chars, overlap_chars)
            ELSE SemanticChunk(sec, k + 1, chunks,
                               IF Len(cur.atoms) > 0 THEN joined ELSE fresh,
                               max_chars, min_chars, overlap_chars)

\* ---- _chunk_id (lines 686-690): the digest of "file_id:ordinal:start_offset"
ChunkId(file_id, ordinal, start_offset) == <<file_id, ordinal, start_offset>>

\* ---- _merge_small_chunks (lines 724-865)
\* lines 775-781: the section paths of two merged chunks
CombinedSection(pending_section, current_section) ==
    IF /\ Len(pending_section) > 0
       /\ Len(current_section) > 0
       /\ pending_section # current_section
    THEN pending_section \o current_section
    ELSE IF Len(pending_section) > 0 THEN pending_section ELSE current_section

\* lines 766-806: the pending chunk merged with the payload that follows it
Combined(a, b) ==
    [a EXCEPT !.atoms = a.atoms \o b.atoms,
              !.chars = a.chars + b.chars + 2,
              !.ov = a.ov + b.ov,
              !.end_char = b.end_char,
              !.section_path = CombinedSection(a.section_path, b.section_path)]

\* lines 824-857: the last chunk merged with the pending chunk left at the end
CombinedLast(last, pending) ==
    [last EXCEPT !.atoms = last.atoms \o pending.atoms,
                 !.chars = last.chars + pending.chars + 2,
                 !.ov = last.ov + pending.ov,
                 !.end_char = pending.end_char]

RECURSIVE MergeLoop(_, _, _, _, _, _)
MergeLoop(ps, i, merged, pending, min_chars, max_chars) ==
    IF i > Len(ps)
    THEN IF Len(pending) = 0 THEN merged
         ELSE IF /\ Len(merged) > 0
                 /\ merged[Len(merged)].chars + pending[1].chars + 2 <= max_chars
              THEN [merged EXCEPT ![Len(merged)] = CombinedLast(@, pending[1])]
              ELSE Append(merged, pending[1])
    ELSE LET payload == ps[i]
         IN IF Len(pending) = 0
            THEN IF payload.chars < min_chars
                 THEN MergeLoop(ps, i + 1, merged, <<payload>>, min_chars, max_chars)
                 ELSE MergeLoop(ps, i + 1, Append(merged, payload), <<>>, min_chars, max_chars)
            ELSE LET combined_chars == pending[1].chars + payload.chars + 2
                     should_merge ==
                         \/ combined_chars <= max_chars
                         \/ /\ payload.chars < min_chars
                            /\ 2 * combined_chars <= 3 * max_chars     \* max_chars * 1.5
                     merged_payload == Combined(pending[1], payload)
                 IN IF should_merge
                    THEN IF merged_payload.chars < min_chars
                         THEN MergeLoop(ps, i + 1, merged, <<merged_payload>>,
                                        min_chars, max_chars)
                         ELSE MergeLoop(ps, i + 1, Append(merged, merged_payload), <<>>,
                                        min_chars, max_chars)
                    ELSE IF payload.chars < min_chars
                         THEN MergeLoop(ps, i + 1, Append(merged, pending[1]), <<payload>>,
                                        min_chars, max_chars)
                         ELSE MergeLoop(ps, i + 1,
                                        Append(Append(merged, pending[1]), payload), <<>>,
                                        min_chars, max_chars)

\* a renumbering that leaves every ordinal as it was
RenumberNever(merged) == merged

\* lines 861-865
Renumber(merged) == [i \in 1..Len(merged) |-> [merged[i] EXCEPT !.ordinal = i - 1]]

\* a merge pass that returns the payloads as it received them
MergeSmallChunksNever(ps, min_chars, max_chars) == ps

MergeSmallChunks(ps, min_chars, max_chars) ==
    IF Len(ps) <= 1 THEN ps
    ELSE Renumber(MergeLoop(ps, 1, <<>>, <<>>, min_chars, max_chars))

\* ---- build (lines 80-184)
MaxChunkChars(cfg) == cfg.chunk_tokens * char_ratio
MinChunkChars == min_chunk_tokens * char_ratio

\* lines 119-141: the chunks of one section that become payloads, with the
\* section's path and their absolute start and end (lines 144-145, 150-153)
SectionPayloads(t, sec, cfg) ==
    LET chunks == SemanticChunk(sec, 1, <<>>, NoChunk, MaxChunkChars(cfg), MinChunkChars,
                                cfg.overlap_tokens * char_ratio)
        kept == SelectSeq(chunks,
                    LAMBDA c : ~(TokenCount(c.chars) < min_chunk_tokens /\ Len(chunks) > 1))
    IN [i \in 1..Len(kept) |->
           [atoms |-> kept[i].atoms, chars |-> kept[i].chars, ov |-> kept[i].ov,
            section_path |-> SectionPathOf(sec),
            start_char |-> SectionStartOffset(t, sec) + kept[i].start,
            end_char |-> SectionStartOffset(t, sec) + kept[i].start + kept[i].chars]]

\* lines 116-141: the chunks of all sections that are kept, in order
Kept(t, cfg) ==
    LET sections == SplitSections(t)
    IN Flatten([k \in 1..Len(sections) |-> SectionPayloads(t, sections[k], cfg)])

\* payloads whose identifier is drawn from the time of the call
IdentifiedByTime(file_id, kept, now) ==
    [i \in 1..Len(kept) |->
        [atoms |-> kept[i].atoms, chars |-> kept[i].chars, ov |-> kept[i].ov,
         section_path |-> kept[i].section_path,
         start_char |-> kept[i].start_char,
         end_char |-> kept[i].end_char,
         ordinal |-> i - 1,
         chunk_id |-> <<file_id, i - 1, now>>,
         created_at |-> now]]

\* lines 143-180: the payload made of a kept chunk; the ordinal counts the
\* payloads made so far
Identified(file_id, kept, now) ==
    [i \in 1..Len(kept) |->
        [atoms |-> kept[i].atoms, chars |-> kept[i].chars, ov |-> kept[i].ov,
         section_path |-> kept[i].section_path,
         start_char |-> kept[i].start_char,
         end_char |-> kept[i].end_char,
         ordinal |-> i - 1,
         chunk_id |-> ChunkId(file_id, i - 1, kept[i].start_char),
         created_at |-> now]]

\* lines 116-180: the payloads as the merge pass receives them
Collected(file_id, t, cfg, now) == Identified(file_id, Kept(t, cfg), now)

Build(file_id, t, cfg, now) ==
    IF Len(t) = 0 THEN <<>>
    ELSE MergeSmallChunks(Collected(file_id, t, cfg, now), MinChunkChars, MaxChunkChars(cfg))

FileId == "doc"

\* build applied to one text under one configuration
Chunk ==
    /\ ~payloads.done
    /\ payloads' = [payloads EXCEPT !.done = TRUE,
                                    !.chunks = Build(FileId, text, config, 1)]
    /\ UNCHANGED <<text, config, runVars, detectVars, resolveVars, fenceVars, stageVars, searchVars, removeVars, snapVars, pdfVars, enrichVars, sentVars, pageVars>>

\* build applied a second time to the same file_id, text and configuration,
\* at a later time
ChunkAgain ==
    /\ payloads.done
    /\ ~payloads.again.done
    /\ payloads' = [payloads EXCEPT
                        !.again = [done |-> TRUE,
                                   chunks |-> Build(FileId, text, config, 2)]]
    /\ UNCHANGED <<text, config, runVars, detectVars, resolveVars, fenceVars, stageVars, searchVars, removeVars, snapVars, pdfVars, enrichVars, sentVars, pageVars>>

\* ---- Indexer._build_chunk_snapshots (indexer.py, lines 1543-1585)
BuildChunkSnapshots(file_id, t, cfg, now) ==
    LET built == Build(file_id, t, cfg, now)
    IN IF Len(t) = 0 THEN <<>>
       ELSE IF Len(built) > 0 THEN built
       ELSE <<[atoms |-> AllAtoms(t), chars |-> TextChars(t), ov |-> 0,
               section_path |-> <<>>, start_char |-> 0, ordinal |-> 0,
               chunk_id |-> <<file_id, "full">>, created_at |-> now]>>

\* Indexer._chunk_id_for_section (indexer.py, lines 1935-1943)
ChunkIdForSection(file_id, ordinal, section_path) ==
    <<file_id, ordinal, IF Len(section_path) = 0 THEN <<"root">> ELSE section_path>>

\* ---- Indexer._build_pdf_multi_chunk_snapshots_from_pages, the per-page
\* branch (indexer.py, lines 1683-1711)
PdfPageSnapshots(file_id, page_texts, cfg, now) ==
    LET page_snapshots ==
            Flatten([i \in 1..Len(page_texts) |->
                        IF Len(page_texts[i]) = 0 THEN <<>>      \* a blank page
                        ELSE BuildChunkSnapshots(file_id, page_texts[i], cfg, now)])
    IN [g \in 1..Len(page_snapshots) |->
           [page_snapshots[g] EXCEPT
               !.ordinal = g - 1,
               !.chunk_id = ChunkIdForSection(file_id, g - 1,
                                              page_snapshots[g].section_path)]]

\* the pages that stand next to the text in a PDF: a blank page, a page
\* that gives one chunk and a page that gives two
PageTexts == {<<>>, <<<<<<97>>>>>>, <<<<<<1250>>>>, <<<<1250>>>>>>}

\* a PDF of two pages, one of them the text, chunked page by page
ChunkPages ==
    /\ payloads.done
    /\ ~payloads.pdf.done
    /\ \E other \in PageTexts, first \in BOOLEAN :
           payloads' = [payloads EXCEPT
               !.pdf = [done |-> TRUE,
                        snapshots |->
                            PdfPageSnapshots(FileId,
                                IF first THEN <<text, other>> ELSE <<other, text>>,
                                config, 3)]]
    /\ UNCHANGED <<text, config, runVars, detectVars, resolveVars, fenceVars, stageVars, searchVars, removeVars, snapVars, pdfVars, enrichVars, sentVars, pageVars>>

ChunkInit ==
    /\ IndexerInit
    /\ DetectIdle
    /\ ResolveIdle
    /\ FenceIdle
    /\ StageIdle
    /\ SearchIdle
    /\ RemoveIdle
    /\ SnapIdle
    /\ PdfIdle
    /\ EnrichIdle
    /\ SentIdle
    /\ PageIdle
    /\ text \in Texts
    /\ config \in ChunkConfigs
    /\ payloads = NoPayloads

ChunkNext == Chunk \/ ChunkAgain \/ ChunkPages
ChunkSpec == ChunkInit /\ [][ChunkNext]_vars

\* the sentences the returned chunks hold, overlap left out, in ordinal order
Covered == Flatten([k \in 1..Len(payloads.chunks) |-> payloads.chunks[k].atoms])

\* C17: the chunks returned by build, taken in ordinal order and without the
\* inserted overlap, hold every sentence of the input exactly once and in the
\* order of the input: nothing is dropped and nothing stands in two chunks.
C17_ChunksCoverText ==
    payloads.done => Covered = AllAtoms(text)

\* C18: build returns no chunk for the empty or whitespace-only text, and for
\* a text that is not blank and shorter than the chunk minimum it returns
\* exactly one chunk, which holds all of the text.
C18_BlankNoneShortOne ==
    payloads.done =>
        /\ Len(text) = 0 => payloads.chunks = <<>>
        /\ (Len(text) > 0 /\ TextChars(text) < MinChunkChars) =>
              /\ Len(payloads.chunks) = 1
              /\ payloads.chunks[1].atoms = AllAtoms(text)

\* C19: every chunk returned by build is at least min_chunk_tokens x char
\* ratio characters long, unless it is the only chunk returned.
C19_ChunksReachMinimum ==
    payloads.done =>
        (Len(payloads.chunks) > 1 =>
            \A k \in 1..Len(payloads.chunks) : payloads.chunks[k].chars >= MinChunkChars)

\* the length of the sentence an atom names
AtomLen(a) == text[a[1]][a[2]][a[3]]

\* C20: no chunk returned by build is longer than chunk_tokens x char ratio
\* characters, except a chunk that is one indivisible unit (one sentence)
\* which is itself longer than that.
C20_ChunksKeepMaximum ==
    payloads.done =>
        \A k \in 1..Len(payloads.chunks) :
            LET c == payloads.chunks[k]
            IN c.chars > MaxChunkChars(config) =>
                   /\ Len(c.atoms) = 1
                   /\ AtomLen(c.atoms[1]) > MaxChunkChars(config)

\* two chunks that stand next to each other in q and are both below the minimum
SmallPair(q, k) ==
    /\ k \in 1..(Len(q) - 1)
    /\ q[k].chars < MinChunkChars
    /\ q[k + 1].chars < MinChunkChars

\* C22: in the list build returns no two adjacent chunks are both below the
\* minimum size, unless the two joined by the separator would be longer than
\* one and a half times the maximum, the limit the merge pass allows to two
\* small chunks.
C22_NoAdjacentSmallChunks ==
    payloads.done =>
        \A k \in 1..(Len(payloads.chunks) - 1) :
            SmallPair(payloads.chunks, k) =>
                2 * (payloads.chunks[k].chars + payloads.chunks[k + 1].chars + 2)
                    > 3 * MaxChunkChars(config)

\* the merge pass received two adjacent small payloads and joined them
C22_Witness ==
    /\ payloads.done
    /\ \E k \in 1..(Len(Collected(FileId, text, config, 1)) - 1) :
           SmallPair(Collected(FileId, text, config, 1), k)
    /\ Len(payloads.chunks) < Len(Collected(FileId, text, config, 1))

\* a heading section whose body is shorter than the section minimum
SmallSection(t, si) == StrippedLen(RawSection(t, si)) < MinChunkChars
\* the sections a chunk holds text of
SectionsIn(c) == {c.atoms[i][1] : i \in 1..Len(c.atoms)}

\* C23: when two consecutive heading sections of the input are each smaller
\* than the minimum, build returns one chunk that holds the text of both and
\* whose section_path carries the labels of both sections.
C23_MergedSectionsKeepLabels ==
    payloads.done =>
        \A si \in 1..(Len(text) - 1) :
            (SmallSection(text, si) /\ SmallSection(text, si + 1)) =>
                \E k \in 1..Len(payloads.chunks) :
                    /\ {si, si + 1} \subseteq SectionsIn(payloads.chunks[k])
                    /\ {si, si + 1} \subseteq Range(payloads.chunks[k].section_path)

\* the ordinals of a list of chunks are 0, 1, ..., n - 1 in the order of the list
Numbered(q) == \A k \in 1..Len(q) : q[k].ordinal = k - 1

\* C25: the ordinals of the chunks produced for one file are exactly
\* 0, 1, ..., n - 1 in output order, in what build returns after its merge
\* pass and in what the per-page chunking of a PDF returns.
C25_OrdinalsSequential ==
    /\ payloads.done => Numbered(payloads.chunks)
    /\ payloads.pdf.done => Numbered(payloads.pdf.snapshots)

\* the merge pass joined two payloads and build still returned two chunks or
\* more, and both pages of the PDF gave chunks
C25_Witness ==
    /\ payloads.done
    /\ Len(payloads.chunks) >= 2
    /\ Len(payloads.chunks) < Len(Collected(FileId, text, config, 1))
    /\ payloads.pdf.done
    /\ Len(payloads.pdf.snapshots) > Len(payloads.chunks)

IntroLen == 220              \* "# T" and one paragraph
MaxParts == 3                \* runs in one fence
RunLens == {100, 450, 500}
RunKinds == {"blank", "hash", "blankhash"}
DefaultConfig == [chunk_tokens |-> 320, overlap_tokens |-> 40]   \* lines 866-870

FenceRuns ==
    UNION {{q \in [1..n -> [len : RunLens, kind : {"open"} \cup RunKinds]] :
               /\ q[1].kind = "open"
               /\ \A i \in 2..n : q[i].kind # "open"} : n \in 1..MaxParts}
FenceDocs == [lead : BOOLEAN, runs : FenceRuns]

\* the pieces of the text: the introduction (0) and the runs, the first run
\* with the opening fence line and the last with the closing one; gap is the
\* number of newlines before the piece, head says that the piece begins with
\* a line SECTION_PATTERN matches (line 18)
Pieces(d) ==
    LET n == Len(d.runs)
        run(i) == [pid |-> i,
                   len |-> d.runs[i].len + (IF i = 1 THEN 4 ELSE 0)
                                         + (IF i = n THEN 4 ELSE 0),
                   gap |-> IF d.runs[i].kind = "open" THEN (IF d.lead THEN 2 ELSE 0)
                           ELSE IF d.runs[i].kind = "hash" THEN 1 ELSE 2,
                   head |-> d.runs[i].kind \in {"hash", "blankhash"}]
        intro == [pid |-> 0, len |-> IntroLen, gap |-> 0, head |-> TRUE]
    IN (IF d.lead THEN <<intro>> ELSE <<>>) \o [i \in 1..n |-> run(i)]

\* len(body.strip()) of a body given by its pieces
PiecesLen(ps) ==
    SumSeq([k \in 1..Len(ps) |-> ps[k].len + IF k = 1 THEN 0 ELSE ps[k].gap])

\* len(fence): from the opening fence line to the closing one
FenceLen(d) ==
    LET P == Pieces(d)
    IN PiecesLen(SubSeq(P, IF d.lead THEN 2 ELSE 1, Len(P)))

\* the newlines that stand between a body and the piece that follows it in
\* the text
TrailGap(P, ps) ==
    LET nxt == {k \in 1..Len(P) : P[k].pid = ps[Len(ps)].pid + 1}
    IN IF nxt = {} THEN 0 ELSE P[CHOOSE k \in nxt : TRUE].gap

\* ---- _split_sections (lines 568-652) on pieces
\* lines 576-606: a section begins at every heading line; the text before
\* the first heading is a section of its own when it is longer than 300
\* characters and belongs to the first section otherwise
RECURSIVE RawSections(_, _, _, _)
RawSections(P, k, cur, out) ==
    IF k > Len(P)
    THEN IF Len(cur.body) > 0 THEN Append(out, cur) ELSE out
    ELSE LET p == P[k]
             preamble == /\ Len(cur.body) > 0
                         /\ \A i \in 1..Len(cur.body) : ~cur.body[i].head
         IN IF p.head /\ Len(cur.body) > 0
                      /\ ~(preamble /\ PiecesLen(cur.body) + p.gap <= 300)
            THEN RawSections(P, k + 1, [path |-> <<p.pid>>, body |-> <<p>>],
                             Append(out, cur))
            ELSE RawSections(P, k + 1,
                             [path |-> IF p.head /\ cur.path = <<>>
                                       THEN <<p.pid>> ELSE cur.path,
                              body |-> Append(cur.body, p)],
                             out)

\* pending_body + "\n" + section_body
JoinPieces(P, a, b) == a \o <<[b[1] EXCEPT !.gap = TrailGap(P, a) + 1]>> \o Tail(b)

\* lines 609-652
RECURSIVE MergeRawSections(_, _, _, _, _)
MergeRawSections(P, raw, i, merged, pending) ==
    IF i > Len(raw)
    THEN IF Len(pending) = 0 THEN merged
         ELSE IF Len(merged) > 0
              THEN [merged EXCEPT ![Len(merged)] =
                       [path |-> @.path, body |-> JoinPieces(P, @.body, pending[1].body)]]
              ELSE pending
    ELSE LET sec == raw[i]
         IN IF Len(pending) > 0
            THEN LET combined == [path |-> pending[1].path,
                                  body |-> JoinPieces(P, pending[1].body, sec.body)]
                 IN IF PiecesLen(combined.body) >= min_chunk_tokens * char_ratio
                    THEN MergeRawSections(P, raw, i + 1, Append(merged, combined), <<>>)
                    ELSE MergeRawSections(P, raw, i + 1, merged, <<combined>>)
            ELSE IF PiecesLen(sec.body) < min_chunk_tokens * char_ratio
                 THEN MergeRawSections(P, raw, i + 1, merged, <<sec>>)
                 ELSE MergeRawSections(P, raw, i + 1, Append(merged, sec), <<>>)

SplitFencedSections(P) ==
    LET raw == RawSections(P, 1, [path |-> <<>>, body |-> <<>>], <<>>)
    IN IF \A k \in 1..Len(P) : ~P[k].head THEN raw        \* no heading: lines 572-574
       ELSE MergeRawSections(P, raw, 1, <<>>, <<>>)

\* ---- _parse_paragraphs_and_lists (lines 323-382) on pieces: the pieces
\* between two blank lines are one paragraph; a single newline that ends the
\* body stays in the last paragraph (tail)
RECURSIVE Paragraphs(_, _, _, _)
Paragraphs(ps, k, out, trail) ==
    IF k > Len(ps)
    THEN IF Len(out) > 0 /\ trail = 1
         THEN [out EXCEPT ![Len(out)] = [@ EXCEPT !.len = @ + 1, !.tail = 1]]
         ELSE out
    ELSE IF Len(out) > 0 /\ ps[k].gap = 1
         THEN Paragraphs(ps, k + 1,
                  [out EXCEPT ![Len(out)] =
                      [@ EXCEPT !.pids = Append(@, ps[k].pid), !.len = @ + 1 + ps[k].len]],
                  trail)
         ELSE Paragraphs(ps, k + 1,
                  Append(out, [type |-> "paragraph", pids |-> <<ps[k].pid>>,
                               len |-> ps[k].len, tail |-> 0, parts |-> <<>>]),
                  trail)

\* ---- _parse_semantic_blocks (lines 264-321) on pieces: CODE_BLOCK_PATTERN
\* (line 21) matches when the body holds the opening and the closing fence
\* line; n is the number of the last run
ParseFencedBlocks(P, body, n) ==
    LET opens == {k \in 1..Len(body) : body[k].pid = 1}
        closes == {k \in 1..Len(body) : body[k].pid = n}
    IN IF opens # {} /\ closes # {}
       THEN LET k == CHOOSE j \in opens : TRUE
                code == SubSeq(body, k, Len(body))
            IN Paragraphs(SubSeq(body, 1, k - 1), 1, <<>>, code[1].gap)
                   \o <<[type |-> "code",
                         pids |-> [i \in 1..Len(code) |-> code[i].pid],
                         len |-> PiecesLen(code), tail |-> 0, parts |-> code]>>
       ELSE Paragraphs(body, 1, <<>>, TrailGap(P, body))

\* ---- _split_at_blank_lines (lines 509-542)
\* re.split(r'(\n\s*\n)', text): the runs between blank lines and the blank
\* lines themselves
RECURSIVE BlankLineParts(_, _, _)
BlankLineParts(code, k, out) ==
    IF k > Len(code) THEN out
    ELSE IF k > 1 /\ code[k].gap = 1
         THEN BlankLineParts(code, k + 1,
                  [out EXCEPT ![Len(out)] =
                      [@ EXCEPT !.pids = Append(@, code[k].pid),
                                !.len = @ + 1 + code[k].len]])
         ELSE BlankLineParts(code, k + 1,
                  (IF k > 1
                   THEN Append(out, [pids |-> <<>>, len |-> code[k].gap, sep |-> TRUE])
                   ELSE out)
                      \o <<[pids |-> <<code[k].pid>>, len |-> code[k].len, sep |-> FALSE]>>)

PartsLen(c) == SumSeq([i \in 1..Len(c) |-> c[i].len])
\* len(current_chunk.strip())
RECURSIVE PartsStripped(_)
PartsStripped(c) ==
    IF Len(c) = 0 THEN 0
    ELSE IF c[1].sep THEN PartsStripped(Tail(c))
    ELSE IF c[Len(c)].sep THEN PartsStripped(SubSeq(c, 1, Len(c) - 1))
    ELSE PartsLen(c)
PartsChunk(c) ==
    [pids |-> Flatten([i \in 1..Len(c) |-> c[i].pids]), raw |-> PartsLen(c),
     chars |-> PartsStripped(c), ov |-> 0]

RECURSIVE SplitAtBlankLines(_, _, _, _, _, _)
SplitAtBlankLines(parts, k, chunks, current_chunk, max_chars, min_chars) ==
    IF k > Len(parts)
    THEN IF PartsStripped(current_chunk) > 0
         THEN Append(chunks, PartsChunk(current_chunk)) ELSE chunks
    ELSE IF /\ Len(current_chunk) > 0
            /\ PartsLen(current_chunk) + parts[k].len > max_chars
            /\ PartsStripped(current_chunk) >= min_chars
         THEN SplitAtBlankLines(parts, k + 1, Append(chunks, PartsChunk(current_chunk)),
                                <<parts[k]>>, max_chars, min_chars)
         ELSE SplitAtBlankLines(parts, k + 1, chunks, Append(current_chunk, parts[k]),
                                max_chars, min_chars)

\* ---- _semantic_chunk (lines 186-262) on the blocks of a body.  A chunk
\* that is closed because the next block does not fit is, in these texts,
\* the introduction alone: its overlap is that of one sentence.
RECURSIVE FencedChunks(_, _, _, _, _, _, _)
FencedChunks(blocks, k, chunks, cur, max_chars, min_chars, overlap_chars) ==
    IF k > Len(blocks)
    THEN IF Len(cur) > 0 THEN Append(chunks, cur[1]) ELSE chunks
    ELSE LET block == blocks[k]
             fresh == [pids |-> block.pids, raw |-> block.len,
                       chars |-> block.len - block.tail, ov |-> 0]
             joined == [pids |-> cur[1].pids \o block.pids,
                        raw |-> cur[1].raw + 2 + block.len,
                        chars |-> cur[1].raw + 2 + block.len - block.tail,
                        ov |-> cur[1].ov]
             overlap_text == GetOverlapText(<<[len |-> cur[1].raw, sep |-> 2]>>,
                                            overlap_chars)
             seeded == [pids |-> block.pids, raw |-> overlap_text + 2 + block.len,
                        chars |-> overlap_text + 2 + block.len - block.tail,
                        ov |-> overlap_text]
         IN IF block.len > max_chars
            THEN FencedChunks(blocks, k + 1,
                     (IF Len(cur) > 0 THEN Append(chunks, cur[1]) ELSE chunks)
                         \o SplitAtBlankLines(BlankLineParts(block.parts, 1, <<>>), 1,
                                              <<>>, <<>>, max_chars, min_chars),
                     <<>>, max_chars, min_chars, overlap_chars)
            ELSE IF Len(cur) > 0 /\ cur[1].raw + block.len + 2 > max_chars
            THEN IF cur[1].chars >= min_chars
                 THEN FencedChunks(blocks, k + 1, Append(chunks, cur[1]),
                                   <<IF overlap_text > 0 THEN seeded ELSE fresh>>,
                                   max_chars, min_chars, overlap_chars)
                 ELSE FencedChunks(blocks, k + 1, chunks, <<joined>>,
                                   max_chars, min_chars, overlap_chars)
            ELSE FencedChunks(blocks, k + 1, chunks,
                              <<IF Len(cur) > 0 THEN joined ELSE fresh>>,
                              max_chars, min_chars, overlap_chars)

\* ---- build (lines 80-184) on a text with a fenced code block
FencedSectionPayloads(P, sec, n, cfg) ==
    LET chunks == FencedChunks(ParseFencedBlocks(P, sec.body, n), 1, <<>>, <<>>,
                               MaxChunkChars(cfg), MinChunkChars,
                               cfg.overlap_tokens * char_ratio)
        kept == SelectSeq(chunks,
                    LAMBDA c : ~(TokenCount(c.chars) < min_chunk_tokens /\ Len(chunks) > 1))
    IN [i \in 1..Len(kept) |->
           [atoms |-> kept[i].pids, chars |-> kept[i].chars, ov |-> kept[i].ov,
            section_path |-> sec.path]]

BuildFenced(d, cfg) ==
    LET P == Pieces(d)
        sections == SplitFencedSections(P)
        kept == Flatten([k \in 1..Len(sections) |->
                            FencedSectionPayloads(P, sections[k], Len(d.runs), cfg)])
        numbered == [i \in 1..Len(kept) |->
                        [atoms |-> kept[i].atoms, chars |-> kept[i].chars,
                         ov |-> kept[i].ov, section_path |-> kept[i].section_path,
                         ordinal |-> i - 1]]
    IN MergeSmallChunks(numbered, MinChunkChars, MaxChunkChars(cfg))

\* build applied to one text with a fenced code block
ChunkFenced ==
    /\ ~fenced.done
    /\ fenced' = [done |-> TRUE, chunks |-> BuildFenced(doc, DefaultConfig)]
    /\ UNCHANGED <<doc, runVars, detectVars, resolveVars, chunkVars, stageVars, searchVars, removeVars, snapVars, pdfVars, enrichVars, sentVars, pageVars>>

FenceInit ==
    /\ IndexerInit
    /\ DetectIdle
    /\ ResolveIdle
    /\ ChunkIdle
    /\ doc \in FenceDocs
    /\ fenced = NoFenced
    /\ StageIdle
    /\ SearchIdle
    /\ RemoveIdle
    /\ SnapIdle
    /\ PdfIdle
    /\ EnrichIdle
    /\ SentIdle
    /\ PageIdle

FenceSpec == FenceInit /\ [][ChunkFenced]_vars

\* the chunk that holds run i, 0 if no chunk holds it
ChunkOf(i) ==
    LET holds == {k \in 1..Len(fenced.chunks) : i \in Range(fenced.chunks[k].atoms)}
    IN IF holds = {} THEN 0 ELSE CHOOSE k \in holds : TRUE

\* C21: a fenced code block that is not longer than the chunk maximum is in
\* one chunk, whatever lines it contains; a fenced code block longer than the
\* maximum is cut only where it has a blank line.
C21_FenceNotSplit ==
    fenced.done =>
        LET n == Len(doc.runs)
        IN /\ FenceLen(doc) <= MaxChunkChars(DefaultConfig) =>
                 \A i \in 1..n : ChunkOf(i) = ChunkOf(1) /\ ChunkOf(1) # 0
           /\ FenceLen(doc) > MaxChunkChars(DefaultConfig) =>
                 \A i \in 1..(n - 1) :
                     ChunkOf(i) # ChunkOf(i + 1) =>
                         doc.runs[i + 1].kind \in {"blank", "blankhash"}

\* ------------------------------------------------------- the end of a run
\* what refresh() leaves behind when it returns normally (lines 368-388)
ReturnedClean ==
    /\ progress.status \in {"completed", "failed"}
    /\ ~is_paused
    /\ pause_event
    /\ active_folder = "none"
    /\ active_path = "none"
    /\ \A f \in Folders : pending_paths[f] = <<>>

\* C33: every run that holds the lock ends (external calls return or raise,
\* a pause is followed by resume()); when refresh() leaves the run the status
\* is `completed` or `failed`, the lock is free, the pause flag is cleared and
\* no active or pending item is left.
C33_RunTerminatesClean ==
    /\ [][(locked /\ ~locked') => ReturnedClean']_vars
    /\ locked ~> ~locked

\* the liveness half of C33 alone
C33_RunTerminates == locked ~> ~locked

\* --------------------------------------------------- DELETE /folders/{id}
\* remove_folder, lines 63-71: the folder exists, and it is cancelled; the
\* request is modelled for the folder the run is processing, once
RemoveBegin(f) ==
    /\ removal = NoRemoval
    /\ locked
    /\ pc \in CallPoints \ {"idle"}
    /\ CurFolder = f
    /\ folders[f].present
    /\ removal' = [folder |-> f, phase |-> "cancelled", run |-> runs]
    /\ cancelled_folders' = cancelled_folders \cup {f}
    /\ lastOp' = "remove"
    /\ UNCHANGED <<locked, progress, pending_paths, active_folder, active_path,
                   current_run_started, current_run_total, current_processed,
                   pause_event, is_paused>>
    /\ UNCHANGED <<frameVars, worldVars, budgetVars, crashed>>
    /\ UNCHANGED <<ret, activeRuns, started, early, mismatched, vraised, enc, ups, resumed>>
    /\ UNCHANGED <<detectVars, resolveVars, chunkVars, fenceVars, stageVars, searchVars, snapVars, pdfVars, enrichVars, sentVars, pageVars>>

\* remove_folder, line 74: vector_store.delete_by_filter(folder_id), in a worker thread
RemoveVectors ==
    /\ removal.phase = "cancelled"
    /\ removal' = [removal EXCEPT !.phase = "vectors"]
    /\ vstore' = vstore \ FilesOf(removal.folder)
    /\ UNCHANGED <<indexerVars, frameVars, disk, files, folders, budgetVars, obsVars, crashed>>
    /\ UNCHANGED <<detectVars, resolveVars, chunkVars, fenceVars, stageVars, searchVars, snapVars, pdfVars, enrichVars, sentVars, pageVars>>

\* remove_folder, line 76: storage.remove_folder, in a worker thread; the rows
\* of the folder's files go with it (ON DELETE CASCADE); then the response
RemoveRow ==
    /\ removal.phase = "vectors"
    /\ removal' = [removal EXCEPT !.phase = "done"]
    /\ folders' = [folders EXCEPT ![removal.folder] =
                      [@ EXCEPT !.present = FALSE, !.failed_files = <<>>, !.last_indexed = 0]]
    /\ files' = [p \in Files |-> IF FolderOf(p) = removal.folder THEN NoFile ELSE files[p]]
    /\ UNCHANGED <<indexerVars, frameVars, disk, vstore, budgetVars, obsVars, crashed>>
    /\ UNCHANGED <<detectVars, resolveVars, chunkVars, fenceVars, stageVars, searchVars, snapVars, pdfVars, enrichVars, sentVars, pageVars>>

RemoveFolder == (\E f \in Folders : RemoveBegin(f)) \/ RemoveVectors \/ RemoveRow

\* the clients call refresh() and DELETE /folders/{id} only
RemoveNext ==
    \/ \E a \in RefreshArgs : Refresh(a)
    \/ NextFolder
    \/ FileLoop
    \/ ScanDone
    \/ EnrichDone
    \/ EmbedDone
    \/ Reconcile
    \/ RemoveFolder

RemoveSpec == Init /\ [][RemoveNext]_vars

\* the removal was answered and the run it met has finished
RemovedAndRunOver ==
    /\ removal.phase = "done"
    /\ ~locked
    /\ runs = removal.run

\* C32: once DELETE /folders/{id} has returned and the run that was processing
\* the folder has finished, storage holds no folder record and no file record
\* of the folder and the vector store holds no vector of it.
C32_RemovalIsFinal ==
    RemovedAndRunOver =>
        /\ ~folders[removal.folder].present
        /\ \A p \in FilesOf(removal.folder) : ~files[p].present /\ p \notin vstore

\* ------------------------------------------------ a refresh of named files
\* C31: a refresh that names files processes only those files and scans no
\* folder in full, also when named files belong to no registered folder or
\* no longer exist.
C31_OnlyNamedFiles ==
    (resolved.done /\ req.files # <<>>) =>
        \A i \in 1..Len(resolved.batches) :
            /\ resolved.batches[i].specific
            /\ Range(resolved.batches[i].to_process) \subseteq Range(req.files)

\* ------------------------------------------------ the HTTP control endpoints
\* _process_folder is held in "await self._pause_event.wait()"
HeldAtPause == locked /\ pc = "blocked" /\ is_paused

\* POST /index/resume passes its guard and reaches Indexer.resume
ResumeIndexAccepted == progress.status = "paused"

\* POST /index/pause passes its guard and Indexer.pause does not return early
PauseIndexActs == progress.status = "running" /\ ~is_paused

\* C30: whenever the per-file loop is held at the pause signal, status is
\* `paused`, so POST /index/resume is accepted; no state has the run waiting
\* on the pause signal with /index/resume rejected and /index/pause without
\* effect.
C30_HeldRunCanBeResumed ==
    /\ HeldAtPause => ResumeIndexAccepted
    /\ ~(HeldAtPause /\ ~ResumeIndexAccepted /\ ~PauseIndexActs)

\* ------------------------------------------- the active file's recent events
\* _set_active_stage keeps the last recent_events_cap events of the file in flight
recent_events_cap == 100
\* events one file emits, and files begun, in one behaviour
MaxEmitted == 103
MaxSerial == 2

Stages == {"scan", "enrich", "store", "embed", "pdf_vision"}

\* a truncation that keeps the first entries instead of the last
KeepLastDropsNewest(evs) ==
    IF Len(evs) > recent_events_cap THEN SubSeq(evs, 1, recent_events_cap) ELSE evs

\* if len(evs) > 100: evs = evs[-100:]
KeepLast(evs) ==
    IF Len(evs) > recent_events_cap
    THEN SubSeq(evs, Len(evs) - recent_events_cap + 1, Len(evs))
    ELSE evs

\* the payload of an event: the file that emitted it and its number in that file
EventPayload(file, n) == <<file, n>>

\* _set_active_stage(stage=..., event=...) ; has_event is "event is not None"
SetActiveStage(evs, n, file, has_event) ==
    IF has_event THEN KeepLast(Append(evs, EventPayload(file, n))) ELSE evs

\* _process_single_file, from its first line to the "Scanning" event
BeginFile ==
    /\ ~in_file
    /\ serial < MaxSerial
    /\ in_file' = TRUE
    /\ serial' = serial + 1
    /\ active_stage' = "scan"
    /\ emitted' = 1
    /\ active_recent_events' = SetActiveStage(<<>>, 1, serial + 1, TRUE)
    /\ UNCHANGED <<runVars, detectVars, resolveVars, chunkVars, fenceVars, searchVars, removeVars, snapVars, pdfVars, enrichVars, sentVars, pageVars>>

\* a stage of the pipeline reports itself, with or without an event
ReportStage ==
    /\ in_file
    /\ \E stage \in Stages, has_event \in BOOLEAN :
        /\ has_event => emitted < MaxEmitted
        /\ ~has_event => stage # active_stage
        /\ active_stage' = stage
        /\ emitted' = IF has_event THEN emitted + 1 ELSE emitted
        /\ active_recent_events' =
               SetActiveStage(active_recent_events, emitted + 1, serial, has_event)
    /\ UNCHANGED <<in_file, serial>>
    /\ UNCHANGED <<runVars, detectVars, resolveVars, chunkVars, fenceVars, searchVars, removeVars, snapVars, pdfVars, enrichVars, sentVars, pageVars>>

\* the finally clause of _process_single_file (after a return or an exception)
EndFile ==
    /\ in_file
    /\ in_file' = FALSE
    /\ active_stage' = "none"
    /\ active_recent_events' = <<>>
    /\ UNCHANGED <<serial, emitted>>
    /\ UNCHANGED <<runVars, detectVars, resolveVars, chunkVars, fenceVars, searchVars, removeVars, snapVars, pdfVars, enrichVars, sentVars, pageVars>>

StageInit ==
    /\ IndexerInit
    /\ DetectIdle
    /\ ResolveIdle
    /\ ChunkIdle
    /\ FenceIdle
    /\ StageIdle
    /\ SearchIdle
    /\ RemoveIdle
    /\ SnapIdle
    /\ PdfIdle
    /\ EnrichIdle
    /\ SentIdle
    /\ PageIdle

StageNext == BeginFile \/ ReportStage \/ EndFile
StageSpec == StageInit /\ [][StageNext]_vars

\* the step adds an event to the buffer of the file in flight
AddsEvent == in_file /\ in_file' /\ emitted' = emitted + 1

\* C28: the recent-events buffer never holds more than 100 entries; an event
\* added to a full buffer drops the oldest entry and keeps the order of the
\* others; the buffer is empty while no file is in flight (so when a file
\* starts and after it ends), and a file's buffer begins with its own first
\* event only.
C28_RecentEventsBounded ==
    /\ [](Len(active_recent_events) <= recent_events_cap)
    /\ [](~in_file => active_recent_events = <<>>)
    /\ [][(~in_file /\ in_file') =>
              active_recent_events' = <<EventPayload(serial', 1)>>]_vars
    /\ [][AddsEvent =>
              active_recent_events' =
                  (IF Len(active_recent_events) = recent_events_cap
                   THEN Tail(active_recent_events)
                   ELSE active_recent_events) \o <<EventPayload(serial, emitted')>>]_vars

\* the second file's buffer is full and has dropped its three oldest events
C28_Witness ==
    /\ in_file
    /\ serial = 2
    /\ emitted = recent_events_cap + 3
    /\ Len(active_recent_events) = recent_events_cap
    /\ active_recent_events[1] = EventPayload(2, 4)
    /\ active_recent_events[recent_events_cap] = EventPayload(2, recent_events_cap + 3)

\* ------------------------------------------------ the scores search returns
\* settings.qdrant.metric_type and the names tests/test_vector_store.py uses
Metrics == {"cosine", "COSINE", "Cosine", "l2", "IP", "DOT"}
\* scores of the points the client returns, in thousandths
RawScores == {-500, 0, 300, 500, 1000, 1500, 2000, 3000, 5000, 42000}

\* search builds SearchHit(score=result.score, ...): no function of the
\* module takes the metric, and the score of the point is copied as it is
HitScore(metric, value) == value

\* search, for one point of the response
Search ==
    /\ ~hit.done
    /\ hit' = [done |-> TRUE, score |-> HitScore(metric_type, raw_score)]
    /\ UNCHANGED <<metric_type, raw_score>>
    /\ UNCHANGED <<runVars, detectVars, resolveVars, chunkVars, fenceVars, stageVars, removeVars, snapVars, pdfVars, enrichVars, sentVars, pageVars>>

SearchInit ==
    /\ IndexerInit
    /\ DetectIdle
    /\ ResolveIdle
    /\ ChunkIdle
    /\ FenceIdle
    /\ StageIdle
    /\ metric_type \in Metrics
    /\ raw_score \in RawScores
    /\ hit = NoHit
    /\ RemoveIdle
    /\ SnapIdle
    /\ PdfIdle
    /\ EnrichIdle
    /\ SentIdle
    /\ PageIdle

SearchSpec == SearchInit /\ [][Search]_vars

\* the metric names that mean cosine, whatever their case, and l2
CosineNames == {"cosine", "COSINE", "Cosine"}
Clamped(x, lo, hi) == IF x < lo THEN lo ELSE IF x > hi THEN hi ELSE x

\* C29: the score of a hit is the normalised value of the point's score: for
\* a cosine distance d (metric name in any case) it is (1 - d + 1)/2 clamped
\* to [0, 1], for an l2 distance d it is 1/(1 + d), for any other metric it
\* is d; for cosine it lies in [0, 1].  (Scores are in thousandths.)
C29_ScoreNormalised ==
    hit.done =>
        /\ metric_type \in CosineNames =>
               /\ 2 * hit.score = Clamped(2000 - raw_score, 0, 2000)
               /\ hit.score \in 0..1000
        /\ metric_type = "l2" => hit.score * (1000 + raw_score) = 1000 * 1000
        /\ metric_type \notin CosineNames \cup {"l2"} => hit.score = raw_score

\* ------------------------------------------------------ the run's counters
\* a step inside one run: the lock is held before and after it
InRun == locked /\ locked'

\* a step that ends the pipeline of the file that was started last
EndsFile == locked /\ active_path # "none" /\ active_path' = "none" /\ locked'

\* exactly one of processed and failed grows, and by one
OneCounterByOne ==
    \/ /\ progress'.processed = progress.processed + 1
       /\ progress'.failed = progress.failed
    \/ /\ progress'.processed = progress.processed
       /\ progress'.failed = progress.failed + 1

\* the run returns `completed` and no folder was cancelled during it
CompletesUncancelled ==
    locked /\ ~locked' /\ progress'.status = "completed" /\ cancelled_folders = {}

MaxHeld == 2
SnapList == <<"a", "b">>     \* the files of the run the readers watch

\* `return self.progress`
Hand(h, p) == Append(h, [live |-> TRUE, seen |-> p, now |-> p])

\* `self.progress = IndexProgress(...)`: the attribute names a new object
Rebound(h) == [i \in 1..Len(h) |-> [h[i] EXCEPT !.live = FALSE]]

\* the except clause of a copy-on-write indexer: the old object is left alone
MutatedNowhere(h, p) == h

\* `self.progress.failed += 1`, `self.progress.failed_items.append(...)`: the
\* object self.progress names changes, whoever else holds it
MutatedInPlace(h, p) ==
    [i \in 1..Len(h) |-> IF h[i].live THEN [h[i] EXCEPT !.now = p] ELSE h[i]]

\* what the actions on the progress leave alone
SnapFrame ==
    /\ UNCHANGED <<pending_paths, active_folder, cancelled_folders>>
    /\ UNCHANGED <<pc, args, batches, bi, mem, art>>
    /\ UNCHANGED <<worldVars, budgetVars, obsVars, crashed>>
    /\ UNCHANGED <<detectVars, resolveVars, chunkVars, fenceVars, stageVars, searchVars, removeVars, pdfVars, enrichVars, sentVars, pageVars>>

\* refresh(), lines 263-264 (the lock is held) and 266-324 (a run starts)
SnapRefresh ==
    /\ Len(held) < MaxHeld
    /\ IF locked
       THEN /\ held' = Hand(held, progress)
            /\ UNCHANGED <<locked, progress, active_path, current_run_started,
                           current_run_total, current_processed, pause_event, is_paused,
                           process_list, fi>>
       ELSE /\ ~current_run_started
            /\ locked' = TRUE
            /\ current_run_started' = TRUE
            /\ current_run_total' = Len(SnapList)
            /\ current_processed' = 0
            /\ progress' = IndexProgress("running", 0, 0, <<>>, Len(SnapList), "none", "none")
            /\ process_list' = SnapList
            /\ fi' = 1
            /\ held' = Rebound(held)
            /\ UNCHANGED <<active_path, pause_event, is_paused>>
    /\ SnapFrame

\* status(), lines 390-391
SnapStatus ==
    /\ Len(held) < MaxHeld
    /\ held' = Hand(held, progress)
    /\ UNCHANGED <<locked, progress, active_path, current_run_started, current_run_total,
                   current_processed, pause_event, is_paused, process_list, fi>>
    /\ SnapFrame

\* pause(), lines 393-410
SnapPause ==
    /\ Len(held) < MaxHeld
    /\ IF progress.status # "running" \/ is_paused
       THEN /\ held' = Hand(held, progress)
            /\ UNCHANGED <<progress, pause_event, is_paused>>
       ELSE /\ is_paused' = TRUE
            /\ pause_event' = FALSE
            /\ progress' = IndexProgress("paused", current_processed, progress.failed,
                                         progress.failed_items, current_run_total,
                                         "paused", progress.last_error)
            /\ held' = Hand(Rebound(held), progress')
    /\ UNCHANGED <<locked, active_path, current_run_started, current_run_total,
                   current_processed, process_list, fi>>
    /\ SnapFrame

\* resume(), lines 412-418
SnapResume ==
    /\ Len(held) < MaxHeld
    /\ IF ~is_paused
       THEN /\ held' = Hand(held, progress)
            /\ UNCHANGED <<progress, pause_event, is_paused>>
       ELSE /\ is_paused' = FALSE
            /\ pause_event' = TRUE
            /\ progress' = SetRunningProgress(progress, current_processed, "resuming")
            /\ held' = Hand(IF current_run_started THEN Rebound(held) ELSE held, progress')
    /\ UNCHANGED <<locked, active_path, current_run_started, current_run_total,
                   current_processed, process_list, fi>>
    /\ SnapFrame

\* _process_folder 683-692 and _process_single_file 595-606: the next file starts
SnapStartFile ==
    /\ locked /\ active_path = "none" /\ fi <= Len(process_list)
    /\ pause_event
    /\ active_path' = process_list[fi]
    /\ progress' = SetRunningProgress(progress, current_processed, "indexing")
    /\ held' = Rebound(held)
    /\ UNCHANGED <<locked, current_run_started, current_run_total, current_processed,
                   pause_event, is_paused, process_list, fi>>
    /\ SnapFrame

\* _process_single_file returns True, then _process_folder 694-698
SnapFileCompletes ==
    /\ locked /\ active_path # "none"
    /\ active_path' = "none"
    /\ current_processed' = current_processed + 1
    /\ progress' = SetRunningProgress(progress, current_processed + 1, "keep")
    /\ held' = Rebound(held)
    /\ fi' = fi + 1
    /\ UNCHANGED <<locked, current_run_started, current_run_total, pause_event, is_paused,
                   process_list>>
    /\ SnapFrame

\* _process_single_file, the except clause, lines 628-643
SnapFileFails ==
    LET counted == [progress EXCEPT !.failed = @ + 1,
                                    !.failed_items = Append(@, active_path)]
    IN
    /\ locked /\ active_path # "none"
    /\ active_path' = "none"
    /\ progress' = SetRunningProgress(counted, current_processed, "keep")
    /\ held' = Rebound(MutatedInPlace(held, counted))
    /\ fi' = fi + 1
    /\ UNCHANGED <<locked, current_run_started, current_run_total, current_processed,
                   pause_event, is_paused, process_list>>
    /\ SnapFrame

\* refresh(), lines 368-388: the folder has ended, the run returns
SnapFolderEnds ==
    /\ locked /\ active_path = "none" /\ fi > Len(process_list)
    /\ Len(held) < MaxHeld
    /\ progress' = IndexProgress("completed", current_processed, progress.failed,
                                 progress.failed_items, current_run_total, "none", "none")
    /\ held' = Hand(Rebound(held), progress')
    /\ locked' = FALSE
    /\ pause_event' = TRUE
    /\ is_paused' = FALSE
    /\ UNCHANGED <<active_path, current_run_started, current_run_total, current_processed,
                   process_list, fi>>
    /\ SnapFrame

SnapNext ==
    \/ SnapRefresh \/ SnapStatus \/ SnapPause \/ SnapResume
    \/ SnapStartFile \/ SnapFileCompletes \/ SnapFileFails \/ SnapFolderEnds

SnapSpec == Init /\ [][SnapNext]_vars

\* the counters and the failure list of a progress object
Counters(p) == <<p.processed, p.failed, p.failed_items>>

\* C35: a progress handed to a reader by status(), pause(), resume() or
\* refresh() never changes afterwards: whatever the pipeline does next (a
\* file fails, a file completes, the folder ends), the object the reader holds
\* keeps the counters and the failed_items it had when it was returned.
C35_SnapshotImmutable ==
    \A i \in 1..Len(held) : Counters(held[i].now) = Counters(held[i].seen)

\* ------------------------------------------------- the chunks of a PDF
\* _build_artifact_chunks for a PDF of two pages.  A page is a text; the
\* text of the whole document is the pages one after the other, and its page
\* mapping gives the sections of the first page to page 1, the others to
\* page 2.  A chunk is kept as the set of pages its text is drawn from.
placeholder_chars == 32      \* len("[Page 1 - no content extracted]") + 1

\* _process_pdf_vision, lines 940-956: a page without content is described
\* by a placeholder line
Described(page_texts) ==
    [i \in 1..Len(page_texts) |->
        IF Len(page_texts[i]) = 0 THEN <<<<<<placeholder_chars>>>>>> ELSE page_texts[i]]

\* _build_pdf_page_chunk_snapshots (lines 1618-1663): one chunk for each page
PdfPageChunkSnapshots(page_texts) == [i \in 1..Len(page_texts) |-> [pages |-> {i}]]

\* _build_chunk_snapshots on every text a branch may hand it: page i alone
\* (entry i) and the pages joined by a blank line (the last entry)
ChunkerOn(page_texts, cfg) ==
    [i \in 1..(Len(page_texts) + 1) |->
        BuildChunkSnapshots(FileId,
                            IF i <= Len(page_texts) THEN page_texts[i] ELSE Flatten(page_texts),
                            cfg, 1)]

\* the per-page branch (lines 1683-1711): the chunks of page i lie on page i
PagesInIsolation(page_texts, built) ==
    Flatten([i \in 1..Len(page_texts) |->
                IF Len(page_texts[i]) = 0 THEN <<>>
                ELSE [k \in 1..Len(built[i]) |-> [pages |-> {i}]]])

\* the chunker on the pages joined by a blank line, with the mapping of the
\* joined text (lines 1713-1732, and lines 1253-1258 with the artifact's own
\* text and mapping): a chunk lies on the pages of its sentences
PagesJoined(page_texts, built) ==
    LET PageOf(atom) ==
            CHOOSE i \in 1..Len(page_texts) :
                /\ atom[1] > SumSeq([m \in 1..(i - 1) |-> Len(page_texts[m])])
                /\ atom[1] <= SumSeq([m \in 1..i |-> Len(page_texts[m])])
        snapshots == built[Len(page_texts) + 1]
    IN [k \in 1..Len(snapshots) |->
           [pages |-> {PageOf(snapshots[k].atoms[a]) : a \in 1..Len(snapshots[k].atoms)}]]

\* _build_pdf_multi_chunk_snapshots_from_pages (lines 1665-1732)
PdfMultiChunkSnapshotsFromPages(page_texts, built, indexing_mode) ==
    IF indexing_mode = "fine"
    THEN PagesInIsolation(page_texts, built)
    ELSE PagesJoined(page_texts, built)

\* _build_artifact_chunks, the two PDF branches (lines 1197-1303)
BuildArtifactChunks(in) ==
    LET nonblank == \E i \in 1..Len(in.page_texts) : Len(in.page_texts[i]) > 0
        page_texts == IF in.descriptions THEN Described(in.page_texts) ELSE in.page_texts
        built == ChunkerOn(page_texts, in.cfg)
    IN IF in.descriptions
       THEN IF in.one_chunk_per_page
            THEN PdfPageChunkSnapshots(page_texts)
            ELSE PdfMultiChunkSnapshotsFromPages(page_texts, built, in.mode)
       ELSE IF nonblank
            THEN IF in.one_chunk_per_page
                 THEN PdfPageChunkSnapshots(page_texts)
                 ELSE IF in.page_mapping
                      THEN PagesJoined(page_texts, built)
                      ELSE PdfMultiChunkSnapshotsFromPages(page_texts, built, in.mode)
            ELSE <<>>                     \* no page has text: pdf_empty_text

PdfInputs ==
    [page_texts : {<<p, q>> : p \in PageTexts, q \in PageTexts},
     descriptions : BOOLEAN, page_mapping : BOOLEAN, one_chunk_per_page : BOOLEAN,
     mode : {"fast", "fine"}, cfg : ChunkConfigs]

BuildPdf ==
    /\ ~pdf_chunks.done
    /\ pdf_chunks' = [done |-> TRUE, chunks |-> BuildArtifactChunks(pdf_input)]
    /\ UNCHANGED <<pdf_input, runVars, detectVars, resolveVars, chunkVars, fenceVars, stageVars, searchVars, removeVars, snapVars, enrichVars, sentVars, pageVars>>

PdfInit ==
    /\ IndexerInit
    /\ DetectIdle
    /\ ResolveIdle
    /\ ChunkIdle
    /\ FenceIdle
    /\ StageIdle
    /\ SearchIdle
    /\ RemoveIdle
    /\ SnapIdle
    /\ EnrichIdle
    /\ SentIdle
    /\ PageIdle
    /\ pdf_input \in PdfInputs
    /\ pdf_chunks = NoPdfChunks

PdfSpec == PdfInit /\ [][BuildPdf]_vars

\* C36: in fine mode every chunk built for a PDF is built from the text of
\* one page, whichever branch builds it: one chunk per page, several chunks
\* from the page descriptions, or several chunks from the page texts with the
\* page mapping of the whole text.
C36_OnePagePerChunk ==
    (pdf_chunks.done /\ pdf_input.mode = "fine") =>
        \A k \in 1..Len(pdf_chunks.chunks) : Cardinality(pdf_chunks.chunks[k].pages) = 1

\* ----------------------------------------------- the enrichment of one file
\* _process_single_file for one file, seen from _enrich_artifact: the vision
\* pass, the summary and the stages after them.  What the vision processor,
\* the LLM and the later stages answer is given with the file (job): a vision
\* call returns text ("text"), returns nothing ("empty"), raises ("error") or
\* raises an error whose message names Tesseract ("tesseract").
fallback_chars == 2000       \* fallback[:2000], line 1384
VisionAnswers == {"text", "empty", "error", "tesseract"}
VisionErrors == {"error", "tesseract"}
Jobs ==
    [kind : {"image", "pdf", "text"}, mode : {"fast", "fine"},
     vision : [1..2 -> VisionAnswers],        \* an image asks once, a PDF once a page
     raw : BOOLEAN,                           \* the parser found text (in every page)
     chars : {1500, 2500},                    \* len(text_payload.strip())
     llm : {"text", "empty", "raise"},
     later : {"ok", "raise"}]                 \* chunking, embedding and storing

\* an except clause that swallows every error of the vision processor
ReraisedNever(indexing_mode, answer) == FALSE

\* the except clauses of lines 868-871 and 964-968
Reraised(indexing_mode, answer) == indexing_mode = "fast" \/ answer = "tesseract"

\* a summary step that lets the error of the LLM escape
SummaryWithoutFallback(indexing_mode, llm, chars) ==
    IF indexing_mode = "fast"
    THEN [from |-> "raw", chars |-> IF chars < fallback_chars THEN chars ELSE fallback_chars]
    ELSE IF llm = "text" THEN [from |-> "llm", chars |-> 0]
    ELSE [from |-> "raised", chars |-> 0]

\* _summarize_text_for_retrieval (lines 1338-1384) on a text that is not blank
SummarizeTextForRetrieval(indexing_mode, llm, chars) ==
    LET truncated == IF chars < fallback_chars THEN chars ELSE fallback_chars
    IN IF indexing_mode = "fast" THEN [from |-> "raw", chars |-> truncated]
       ELSE IF llm = "text" THEN [from |-> "llm", chars |-> 0]
       ELSE [from |-> "raw", chars |-> truncated]       \* it raised, or returned nothing

EnrichFrame ==
    UNCHANGED <<job, runVars, detectVars, resolveVars, chunkVars, fenceVars, stageVars, searchVars, removeVars, snapVars, pdfVars, sentVars, pageVars>>

\* _process_single_file up to _enrich_artifact, line 1072
BeginEnrich ==
    /\ enr.pc = "idle"
    /\ enr' = [enr EXCEPT !.pc = "image",
                          !.text_payload = IF job.raw THEN "parsed" ELSE "none"]
    /\ EnrichFrame

\* _enrich_artifact, lines 1079-1082: _process_image_preview (859-872)
ProcessImagePreview ==
    LET answer == job.vision[1]
    IN
    /\ enr.pc = "image"
    /\ IF job.kind # "image"
       THEN enr' = [enr EXCEPT !.pc = "pdf"]
       ELSE IF answer \in VisionErrors
            THEN enr' = [enr EXCEPT !.calls = Append(@, answer),
                                    !.pc = IF Reraised(job.mode, answer)
                                           THEN "raised" ELSE "pdf"]
            ELSE enr' = [enr EXCEPT !.calls = Append(@, answer),
                                    !.pc = "pdf",
                                    !.text_payload = IF answer = "text" THEN "image" ELSE @]
    /\ EnrichFrame

\* _enrich_artifact, lines 1084-1087: _process_pdf_vision (874-970), one page
\* of the loop, or the lines after the loop
ProcessPdfVision ==
    LET i == Len(enr.page_results) + 1
        answer == job.vision[i]
    IN
    /\ enr.pc = "pdf"
    /\ IF job.kind # "pdf"
       THEN enr' = [enr EXCEPT !.pc = "summarize"]
       ELSE IF i > 2
            THEN enr' = [enr EXCEPT !.pc = "summarize", !.descriptions = TRUE,
                                    !.text_payload = "pages"]
            ELSE IF answer \in VisionErrors
                 THEN enr' = [enr EXCEPT !.calls = Append(@, answer),
                                         !.pc = IF Reraised(job.mode, answer)
                                                THEN "raised" ELSE "summarize"]
                 ELSE enr' = [enr EXCEPT
                                 !.calls = Append(@, answer),
                                 !.page_results =
                                     Append(@, IF answer = "text" THEN "vision"
                                               ELSE IF job.raw THEN "raw_text"
                                               ELSE "placeholder")]
    /\ EnrichFrame

\* _enrich_artifact, lines 1094-1117: the summary
Summarize ==
    LET summary == SummarizeTextForRetrieval(job.mode, job.llm, job.chars)
    IN
    /\ enr.pc = "summarize"
    /\ IF enr.text_payload = "none"
       THEN enr' = [enr EXCEPT !.pc = "store", !.summary = [from |-> "metadata", chars |-> 0]]
       ELSE IF summary.from = "raised"
            THEN enr' = [enr EXCEPT !.pc = "raised", !.asked = job.mode = "fine"]
            ELSE enr' = [enr EXCEPT !.pc = "store", !.asked = job.mode = "fine",
                                    !.summary = summary]
    /\ EnrichFrame

\* _enrich_artifact, lines 1119-1125, and _process_single_file, lines 619-626
StoreEnriched ==
    /\ enr.pc = "store"
    /\ enr' = IF job.later = "ok"
              THEN [enr EXCEPT !.pc = "done", !.status = "indexed"]
              ELSE [enr EXCEPT !.pc = "raised"]
    /\ EnrichFrame

\* _process_single_file, the except clause (628-643)
FileBoundary ==
    /\ enr.pc = "raised"
    /\ enr' = [enr EXCEPT !.pc = "done", !.status = "error"]
    /\ EnrichFrame

EnrichInit ==
    /\ IndexerInit
    /\ DetectIdle
    /\ ResolveIdle
    /\ ChunkIdle
    /\ FenceIdle
    /\ StageIdle
    /\ SearchIdle
    /\ RemoveIdle
    /\ SnapIdle
    /\ PdfIdle
    /\ SentIdle
    /\ PageIdle
    /\ job \in Jobs
    /\ enr = NotBegun

EnrichNext ==
    \/ BeginEnrich \/ ProcessImagePreview \/ ProcessPdfVision
    \/ Summarize \/ StoreEnriched \/ FileBoundary

EnrichSpec == EnrichInit /\ [][EnrichNext]_vars

\* a vision call of this file raised an error the claim says is re-raised
RaisedToFail ==
    \E c \in 1..Len(enr.calls) :
        \/ job.mode = "fast" /\ enr.calls[c] \in VisionErrors
        \/ enr.calls[c] = "tesseract"

SummaryCallFailed == enr.asked /\ job.llm \in {"empty", "raise"}

\* C40: when the summary call of fine mode raises or returns nothing the file
\* is not failed: its summary is the working text cut to its first 2000
\* characters, the pipeline goes on to the stages after the summary, and the
\* file ends with status `indexed` when those stages succeed.
C40_SummaryFailsOpen ==
    /\ [](SummaryCallFailed =>
            /\ enr.summary = [from |-> "raw",
                              chars |-> IF job.chars < 2000 THEN job.chars ELSE 2000]
            /\ enr.pc = "done" /\ job.later = "ok" => enr.status = "indexed")
    /\ [][(enr.pc = "summarize" /\ SummaryCallFailed') => enr'.pc = "store"]_vars

\* the LLM raised on a text of 2500 characters; the file was indexed with the
\* first 2000 characters as its summary
C40_Witness ==
    /\ job.mode = "fine" /\ job.llm = "raise" /\ job.chars = 2500
    /\ enr.asked
    /\ enr.summary = [from |-> "raw", chars |-> 2000]
    /\ enr.pc = "done" /\ enr.status = "indexed"

\* ------------------------------------------- a block cut at its sentences
\* _split_at_sentences on the text of one block, a character at a time: a
\* letter, a full stop (any of the terminators of the pattern) or a blank.
\* Offsets count from 0 and a range <<s, e>> is text[s:e].
MaxChars == 6                \* the longest block
Letters == {"a", ".", " "}
Blocks == UNION {[1..n -> Letters] : n \in 1..MaxChars}
Limits == [max_chars : {3, 4}, min_chars : {1, 3}]

IsTerminator(c) == c = "."          \* [.!?。！？；]
IsSpace(c) == c = " "               \* [\s\n]

\* text[s:e].strip() is empty
Blank(t, s, e) == \A i \in (s + 1)..e : IsSpace(t[i])
\* the range of text[s:e].strip(), and of text[s:e].rstrip()
RECURSIVE LStrip(_, _, _)
LStrip(t, s, e) == IF s < e /\ IsSpace(t[s + 1]) THEN LStrip(t, s + 1, e) ELSE s
RECURSIVE RStrip(_, _, _)
RStrip(t, s, e) == IF s < e /\ IsSpace(t[e]) THEN RStrip(t, s, e - 1) ELSE e

\* where the run of terminators, or of blanks, that begins at offset p ends
RECURSIVE TerminatorsEnd(_, _)
TerminatorsEnd(t, p) ==
    IF p < Len(t) /\ IsTerminator(t[p + 1]) THEN TerminatorsEnd(t, p + 1) ELSE p
RECURSIVE SpacesEnd(_, _)
SpacesEnd(t, p) == IF p < Len(t) /\ IsSpace(t[p + 1]) THEN SpacesEnd(t, p + 1) ELSE p

\* a pattern that asks for white space after the terminators,
\* [.!?。！？；]+[\s\n]+ : the end of its match at offset p, or 0 without one
MatchEndSpaced(t, p) ==
    LET stops == TerminatorsEnd(t, p)
        spaces == SpacesEnd(t, stops)
    IN IF spaces > stops THEN spaces ELSE 0

\* the end of the match of [.!?。！？；]+[\s\n]* that begins at offset p
\* (text[p] is a terminator)
MatchEnd(t, p) == SpacesEnd(t, TerminatorsEnd(t, p))

\* _split_into_sentences (lines 479-507): the ranges of the sentences
RECURSIVE FindSentences(_, _, _, _)
FindSentences(t, p, last_end, sentences) ==
    IF p >= Len(t)
    THEN LET all == IF last_end < Len(t) /\ ~Blank(t, last_end, Len(t))
                    THEN Append(sentences, <<last_end, Len(t)>>)
                    ELSE sentences
         IN IF Len(all) = 0 THEN <<<<0, Len(t)>>>> ELSE all
    ELSE IF IsTerminator(t[p + 1]) /\ MatchEnd(t, p) > 0
         THEN LET sentence_end == MatchEnd(t, p)
              IN FindSentences(t, sentence_end, sentence_end,
                               IF Blank(t, last_end, sentence_end) THEN sentences
                               ELSE Append(sentences, <<last_end, sentence_end>>))
         ELSE FindSentences(t, p + 1, last_end, sentences)

SplitIntoSentences(t) == FindSentences(t, 0, 0, <<>>)

\* _split_at_sentences (lines 439-477).  current_chunk is kept as its length:
\* the sentences follow each other without a gap, so it is
\* text[current_start : current_start + current_len].  A chunk is the range
\* of its stripped text, with the start and end offsets the code reports.
RECURSIVE SplitRanges(_, _, _, _, _, _, _)
SplitRanges(t, sentences, i, chunks, current_start, current_len, lim) ==
    LET Closed == [from |-> LStrip(t, current_start, current_start + current_len),
                   to |-> RStrip(t, current_start, current_start + current_len),
                   start |-> current_start,
                   end |-> current_start
                           + (RStrip(t, current_start, current_start + current_len)
                              - current_start)]
        stripped_len == Closed.to - Closed.from
    IN IF i > Len(sentences)
       THEN IF current_len > 0 /\ stripped_len > 0 THEN Append(chunks, Closed) ELSE chunks
       ELSE LET sent_start == sentences[i][1]
                sentence_len == sentences[i][2] - sentences[i][1]
            IN IF Blank(t, sentences[i][1], sentences[i][2])
               THEN SplitRanges(t, sentences, i + 1, chunks, current_start, current_len, lim)
               ELSE IF current_len > 0 /\ current_len + sentence_len > lim.max_chars
               THEN IF stripped_len >= lim.min_chars
                    THEN SplitRanges(t, sentences, i + 1, Append(chunks, Closed),
                                     sent_start, sentence_len, lim)
                    ELSE SplitRanges(t, sentences, i + 1, chunks,
                                     current_start, current_len + sentence_len, lim)
               ELSE SplitRanges(t, sentences, i + 1, chunks,
                                IF current_len = 0 THEN sent_start ELSE current_start,
                                current_len + sentence_len, lim)

SplitAtSentenceRanges(t, lim) ==
    LET chunks == SplitRanges(t, SplitIntoSentences(t), 1, <<>>, 0, 0, lim)
    IN IF Len(chunks) > 0 THEN chunks
       ELSE <<[from |-> 0, to |-> Len(t), start |-> 0, end |-> Len(t)]>>

\* _semantic_chunk, lines 221-230: a block larger than the maximum is split
SplitBlock ==
    /\ ~pieces.done
    /\ pieces' = [done |-> TRUE, chunks |-> SplitAtSentenceRanges(para, limits)]
    /\ UNCHANGED <<para, limits, runVars, detectVars, resolveVars, chunkVars, fenceVars, stageVars, searchVars, removeVars, snapVars, pdfVars, enrichVars, pageVars>>

SentInit ==
    /\ IndexerInit
    /\ DetectIdle
    /\ ResolveIdle
    /\ ChunkIdle
    /\ FenceIdle
    /\ StageIdle
    /\ SearchIdle
    /\ RemoveIdle
    /\ SnapIdle
    /\ PdfIdle
    /\ EnrichIdle
    /\ PageIdle
    /\ limits \in Limits
    /\ para \in {b \in Blocks : Len(b) > limits.max_chars /\ ~Blank(b, 0, Len(b))}
    /\ pieces = NoPieces

SentSpec == SentInit /\ [][SplitBlock]_vars

\* the cut between two chunks stands at a sentence boundary: the first chunk
\* ends with a terminator and white space separates it from the second
AtSentenceBoundary(t, a, b) == IsTerminator(t[a.to]) /\ b.from > a.to

\* C38: a block larger than the maximum is split only at sentence boundaries:
\* every chunk but the last ends with a sentence terminator that white space
\* follows; no cut falls inside a sentence or inside a token.
C38_SplitOnlyAtSentences ==
    pieces.done =>
        \A k \in 1..(Len(pieces.chunks) - 1) :
            AtSentenceBoundary(para, pieces.chunks[k], pieces.chunks[k + 1])

\* ------------------------------------------------------ the pages of a chunk
\* ChunkingPipeline.build called with a page_mapping (chunker.py)

\* sorted(pages)
RECURSIVE SortedPages(_)
SortedPages(S) ==
    IF S = {} THEN <<>>
    ELSE LET least == CHOOSE x \in S : \A y \in S : x <= y
         IN <<least>> \o SortedPages(S \ {least})

\* _get_pages_for_range (lines 704-722): page_mapping holds
\* <<start_offset, end_offset, page_num>>
GetPagesForRange(start, end, page_mapping) ==
    SortedPages({page_mapping[k][3] :
                    k \in {j \in 1..Len(page_mapping) :
                              start < page_mapping[j][2] /\ end > page_mapping[j][1]}})

\* lines 157-163 of build, 783-793 and 835-844 of _merge_small_chunks: the
\* page metadata of a payload, from its start_char and end_char
WithPages(p, page_mapping) ==
    LET pages == GetPagesForRange(p.start_char, p.end_char, page_mapping)
    IN IF Len(page_mapping) > 0 /\ Len(pages) > 0
       THEN p @@ [page_numbers |-> pages, page_start |-> pages[1],
                  page_end |-> pages[Len(pages)]]
       ELSE p @@ [page_numbers |-> <<>>, page_start |-> 0, page_end |-> 0]

\* build with a page mapping: a payload gets its pages when it is made
\* (lines 157-163) and again, from the merged range, when the merge pass
\* joins it with another (lines 783-793, 835-844), so a returned payload
\* carries the pages of the start_char and end_char it is returned with
\* (the mappings drawn below cover the text, so no range is without a page
\* and the guard `if pages:` never keeps the pages of an earlier range)
BuildWithPages(file_id, t, page_mapping, cfg, now) ==
    LET built == Build(file_id, t, cfg, now)
    IN [i \in 1..Len(built) |-> WithPages(built[i], page_mapping)]

\* where a sentence stands in the text: sections and blocks are separated
\* by a blank line, the sentences of a block by a space
AtomStart(t, a) ==
    SectionStart(t, a[1])
        + SumSeq([m \in 1..(a[2] - 1) |-> BlockLen(t[a[1]][m]) + 2])
        + SentStart(t[a[1]][a[2]], a[3])
AtomEnd(t, a) == AtomStart(t, a) + t[a[1]][a[2]][a[3]]

\* a text of two pages: the second page starts where a sentence starts or
\* right after the full stop that ends one
Breaks(t) ==
    {b \in {AtomStart(t, AllAtoms(t)[k]) : k \in 1..TextAtoms(t)}
             \cup {AtomEnd(t, AllAtoms(t)[k]) : k \in 1..TextAtoms(t)} :
        0 < b /\ b < TextChars(t)}
PageMappings(t) == {<<<<0, b, 1>>, <<b, TextChars(t), 2>>>> : b \in Breaks(t)}

BuildPaged ==
    /\ ~paged.done
    /\ \E page_mapping \in PageMappings(text) :
           paged' = [done |-> TRUE, page_mapping |-> page_mapping,
                     chunks |-> BuildWithPages(FileId, text, page_mapping, config, 1)]
    /\ UNCHANGED <<text, config, payloads, runVars, detectVars, resolveVars, fenceVars, stageVars, searchVars, removeVars, snapVars, pdfVars, enrichVars, sentVars>>

PageInit ==
    /\ IndexerInit
    /\ DetectIdle
    /\ ResolveIdle
    /\ FenceIdle
    /\ StageIdle
    /\ SearchIdle
    /\ RemoveIdle
    /\ SnapIdle
    /\ PdfIdle
    /\ EnrichIdle
    /\ SentIdle
    /\ text \in Texts
    /\ config \in ChunkConfigs
    /\ payloads = NoPayloads
    /\ paged = NoPaged

PageSpec == PageInit /\ [][BuildPaged]_vars

\* the pages that hold text of the range [from, to) of the input
PagesOf(from, to) == GetPagesForRange(from, to, paged.page_mapping)
PageSet(q) == {q[i] : i \in 1..Len(q)}
\* the sentences of chunk c stand in the input from OwnStart to OwnEnd
OwnStart(c) == AtomStart(text, c.atoms[1])
OwnEnd(c) == AtomEnd(text, c.atoms[Len(c.atoms)])
\* the overlap text a chunk begins with is taken from the end of the block
\* before it: it lies within ov characters and the blank line before OwnStart
TakenStart(c) == IF c.ov = 0 THEN OwnStart(c) ELSE OwnStart(c) - 2 - c.ov

\* C39: when a page mapping is supplied, the page_numbers of every returned
\* chunk are the sorted pages whose range overlaps the part of the input the
\* chunk was taken from (every page that holds one of its own sentences, and
\* no page beyond those and the pages its overlap text may come from), and
\* page_start and page_end are the smallest and the largest of them
C39_PagesOfTakenText ==
    paged.done =>
        \A k \in 1..Len(paged.chunks) :
            LET c == paged.chunks[k]
            IN /\ PageSet(PagesOf(OwnStart(c), OwnEnd(c))) \subseteq PageSet(c.page_numbers)
               /\ PageSet(c.page_numbers) \subseteq PageSet(PagesOf(TakenStart(c), OwnEnd(c)))
               /\ c.page_numbers = SortedPages(PageSet(c.page_numbers))
               /\ Len(c.page_numbers) > 0
               /\ c.page_start = c.page_numbers[1]
               /\ c.page_end = c.page_numbers[Len(c.page_numbers)]


====
